---- MODULE Spec2Model ----
(***************************************************************************)
(* Payment reconciliation engine of platform-payment-sync.                 *)
(*                                                                         *)
(* PaymentProcessor.process_payment (app/services/payment_processor.py)    *)
(* is modelled as a process per call; every awaited ledger or CRM          *)
(* operation is one atomic step, so concurrent calls interleave exactly at *)
(* the await points of the code.  EventLogger (app/db/event_logger.py) is  *)
(* the ledger, AmoCRMClient (app/core/amocrm_client.py) the CRM gateway.   *)
(*                                                                         *)
(* AmoCRMClient._make_request is modelled twice: step by step (one action  *)
(* per HTTP attempt, specification SpecRetry) and as the operator          *)
(* MakeRequest over a sequence of attempt outcomes, which the engine steps *)
(* use to decide whether a gateway call returns or raises.                 *)
(*                                                                         *)
(* The processor passes the keywords user_class, is_parent, promo_code and *)
(* purchased_subjects_count to create_lead / update_lead_fields and reads  *)
(* settings.PIPELINE_7_8_CLASS; the client and settings files declare      *)
(* neither.  The model follows the processor's calls and the request       *)
(* bodies the client builds.                                               *)
(***************************************************************************)
EXTENDS Integers, Sequences, FiniteSets, TLC

\* ------------------------------------------------------------------------
\* Bounds
\* ------------------------------------------------------------------------

\* number of process_payment calls (concurrent or sequential) in one run
MaxCalls == 2

\* number of operations (HTTP requests that exhaust their retries, database
\* operations that fail) the environment lets fail in one run
MaxFaults == 2

\* ------------------------------------------------------------------------
\* Program constants
\* ------------------------------------------------------------------------

\* settings.RETRY_MAX_ATTEMPTS (default)
RETRY_MAX_ATTEMPTS == 3

\* pipeline ids (deployment configuration; distinct symbolic values)
AMO_PIPELINE_SITE == 11
AMO_PIPELINE_YANDEX == 12
AMO_PIPELINE_PARTNERS == 13
PIPELINE_7_8_CLASS == 14
PIPELINE_SITE_TG == 15
PIPELINE_VK_EGE == 16
PIPELINE_VK_OGE == 17
PIPELINE_TG_EGE == 18
PIPELINE_TG_OGE == 19
PIPELINE_TG_BOTS == 41
PIPELINE_TG_AI == 42
PIPELINE_TG_PARENTS == 43
PIPELINE_WEBINARS == 44
\* a pipeline outside every allowed list
PIPELINE_FOREIGN == 99

\* autopay stage ids per pipeline (deployment configuration)
AMO_STATUS_AUTOPAY_SITE == 21
AMO_STATUS_AUTOPAY_YANDEX == 22
AMO_STATUS_AUTOPAY_PARTNERS == 23
PIPELINE_7_8_CLASS_AUTOPAY == 24
PIPELINE_SITE_TG_AUTOPAY == 25
PIPELINE_WEBINARS_AUTOPAY == 26
STATUS_SUCCESS == 142
STATUS_CLOSED == 143
\* a stage a manager has already worked on (not excluded, not untouched)
STATUS_IN_WORK == 31

\* the absent value (Python None) of an id
NoneId == 0

\* settings.AMO_PURCHASE_COUNT_n, the enum_id of the value "n" of the
\* purchase-count field, is AMO_PURCHASE_COUNT_0 + n (deployment
\* configuration; distinct symbolic values)
AMO_PURCHASE_COUNT_0 == 500

\* AmoCRMClient._get_purchase_count_enum_id: mapping.get(count)
purchase_count_enum(count) ==
    IF count \in 1..10 THEN AMO_PURCHASE_COUNT_0 + count ELSE NoneId

\* update_lead_fields: int(field["values"][0]["value"]) if field["values"]
\* else 0, where the CRM answers an enum_id with the value it stands for;
\* current_purchase_count stays 0 when the deal has no such field
purchase_count_value(enum_id) ==
    IF enum_id = NoneId THEN 0 ELSE enum_id - AMO_PURCHASE_COUNT_0

\* ------------------------------------------------------------------------
\* Strings as sequences of characters, so that lower() and "in" compute
\* ------------------------------------------------------------------------

\* str.lower() on one character, or on one word of a course name
LowerChar(ch) ==
    CASE ch = "O" -> "o"
      [] ch = "P" -> "p"
      [] ch = "T" -> "t"
      [] ch = "B" -> "b"
      [] ch = "C" -> "c"
      [] ch = "A" -> "a"
      [] ch = "D" -> "d"
      [] ch = "Vesenniy" -> "vesenniy"
      [] ch = "OGE" -> "oge"
      [] OTHER -> ch

Lower(s) == [i \in 1..Len(s) |-> LowerChar(s[i])]

\* Python: sub in s
Contains(sub, s) ==
    \E i \in 0..(Len(s) - Len(sub)) :
        \A j \in 1..Len(sub) : s[i + j] = sub[j]

RECURSIVE Strip(_)
\* Python: s.strip()
Strip(s) ==
    IF s # <<>> /\ s[1] = " " THEN Strip(Tail(s))
    ELSE IF s # <<>> /\ s[Len(s)] = " " THEN Strip(SubSeq(s, 1, Len(s) - 1))
    ELSE s

\* settings.PARTNER_SOURCES.split(",") for the value "tb, ad" and
\* settings.YANDEX_MEDIUMS.split(",") for the value "cp"
PARTNER_SOURCES == << <<"t", "b">>, <<" ", "a", "d">> >>
YANDEX_MEDIUMS == << <<"c", "p">> >>

\* mutant: the comparison with "op" is case-sensitive
is_op_payment_exact(payment) == payment.source = <<"o", "p">>

\* PaymentProcessor.is_op_payment
is_op_payment(payment) == Lower(payment.source) = <<"o", "p">>

\* mutant: the attribution rules are tried before the grade rule
determine_pipeline_and_status_utm_first(utm, user_class) ==
    IF \E i \in 1..Len(PARTNER_SOURCES) :
           Contains(Lower(Strip(PARTNER_SOURCES[i])), Lower(utm.source))
    THEN <<AMO_PIPELINE_PARTNERS, AMO_STATUS_AUTOPAY_PARTNERS>>
    ELSE IF \E i \in 1..Len(YANDEX_MEDIUMS) :
                Contains(Lower(Strip(YANDEX_MEDIUMS[i])), Lower(utm.medium))
         THEN <<AMO_PIPELINE_YANDEX, AMO_STATUS_AUTOPAY_YANDEX>>
         ELSE IF user_class \in {7, 8}
              THEN <<PIPELINE_7_8_CLASS, PIPELINE_7_8_CLASS_AUTOPAY>>
              ELSE <<AMO_PIPELINE_SITE, AMO_STATUS_AUTOPAY_SITE>>

\* mutant: utm_source is not lowered before the partner tokens are sought
determine_pipeline_and_status_case(utm, user_class) ==
    IF user_class \in {7, 8}
    THEN <<PIPELINE_7_8_CLASS, PIPELINE_7_8_CLASS_AUTOPAY>>
    ELSE IF \E i \in 1..Len(PARTNER_SOURCES) :
                Contains(Lower(Strip(PARTNER_SOURCES[i])), utm.source)
         THEN <<AMO_PIPELINE_PARTNERS, AMO_STATUS_AUTOPAY_PARTNERS>>
         ELSE IF \E i \in 1..Len(YANDEX_MEDIUMS) :
                     Contains(Lower(Strip(YANDEX_MEDIUMS[i])), Lower(utm.medium))
              THEN <<AMO_PIPELINE_YANDEX, AMO_STATUS_AUTOPAY_YANDEX>>
              ELSE <<AMO_PIPELINE_SITE, AMO_STATUS_AUTOPAY_SITE>>

\* mutant: utm_medium must equal a paid-traffic token
determine_pipeline_and_status_equal(utm, user_class) ==
    IF user_class \in {7, 8}
    THEN <<PIPELINE_7_8_CLASS, PIPELINE_7_8_CLASS_AUTOPAY>>
    ELSE IF \E i \in 1..Len(PARTNER_SOURCES) :
                Contains(Lower(Strip(PARTNER_SOURCES[i])), Lower(utm.source))
         THEN <<AMO_PIPELINE_PARTNERS, AMO_STATUS_AUTOPAY_PARTNERS>>
         ELSE IF \E i \in 1..Len(YANDEX_MEDIUMS) :
                     Lower(Strip(YANDEX_MEDIUMS[i])) = Lower(utm.medium)
              THEN <<AMO_PIPELINE_YANDEX, AMO_STATUS_AUTOPAY_YANDEX>>
              ELSE <<AMO_PIPELINE_SITE, AMO_STATUS_AUTOPAY_SITE>>

\* PaymentProcessor.determine_pipeline_and_status: the grade rule, then
\* partner.strip().lower() in utm_source for each partner token, then
\* medium.strip().lower() in utm_medium for each paid-traffic token, then
\* the default
determine_pipeline_and_status(utm, user_class) ==
    IF user_class \in {7, 8}
    THEN <<PIPELINE_7_8_CLASS, PIPELINE_7_8_CLASS_AUTOPAY>>
    ELSE IF \E i \in 1..Len(PARTNER_SOURCES) :
                Contains(Lower(Strip(PARTNER_SOURCES[i])), Lower(utm.source))
         THEN <<AMO_PIPELINE_PARTNERS, AMO_STATUS_AUTOPAY_PARTNERS>>
         ELSE IF \E i \in 1..Len(YANDEX_MEDIUMS) :
                     Contains(Lower(Strip(YANDEX_MEDIUMS[i])), Lower(utm.medium))
              THEN <<AMO_PIPELINE_YANDEX, AMO_STATUS_AUTOPAY_YANDEX>>
              ELSE <<AMO_PIPELINE_SITE, AMO_STATUS_AUTOPAY_SITE>>

\* UNPROCESSED_STATUSES.get(current_pipeline, []) of process_payment
UNPROCESSED_STATUSES(pipeline) ==
    CASE pipeline = AMO_PIPELINE_SITE -> {82318294, 41044773}
      [] pipeline = AMO_PIPELINE_YANDEX -> {82465570, 79982002}
      [] pipeline = AMO_PIPELINE_PARTNERS -> {82324050, 69764098}
      [] pipeline = PIPELINE_7_8_CLASS -> {82320578, 81078194}
      [] OTHER -> {}

\* ------------------------------------------------------------------------
\* AmoCRMClient._make_request: the bounded-retry policy
\* ------------------------------------------------------------------------

\* what one HTTP attempt can do: a 2xx answer, a transport failure
\* (httpx.RequestError), or an error status turned into an exception by
\* raise_for_status
AttemptOutcomes == {"ok", "transport", "http429", "http5xx", "http4xx"}

\* the exception an attempt raises ("" when it returns)
ExceptionType(outcome) ==
    CASE outcome = "ok" -> ""
      [] outcome = "transport" -> "RequestError"
      [] OTHER -> "HTTPStatusError"

\* retry=retry_if_exception_type((httpx.HTTPStatusError, httpx.RequestError))
RetryPredicate(outcome) ==
    ExceptionType(outcome) \in {"HTTPStatusError", "RequestError"}

\* stop=stop_after_attempt(settings.RETRY_MAX_ATTEMPTS)
StopAfterAttempt(attempt_number) == attempt_number >= RETRY_MAX_ATTEMPTS

\* every way the attempts of one request can go
AttemptSeqs == [1..RETRY_MAX_ATTEMPTS -> AttemptOutcomes]

RECURSIVE MakeRequestFrom(_, _)
\* the retry loop from attempt n on: "ok" when the request returns, "raise"
\* when the error is surfaced to the caller
MakeRequestFrom(outs, n) ==
    IF outs[n] = "ok" THEN "ok"
    ELSE IF RetryPredicate(outs[n]) /\ ~StopAfterAttempt(n)
         THEN MakeRequestFrom(outs, n + 1)
         ELSE "raise"

MakeRequest(outs) == MakeRequestFrom(outs, 1)

\* what a gateway call can observe of its request
RequestResults == {MakeRequest(outs) : outs \in AttemptSeqs}

\* ------------------------------------------------------------------------
\* Inputs
\* ------------------------------------------------------------------------

Calls == 1..MaxCalls

UserKnown == [tg |-> "", phone |-> "ph1", email |-> "em1"]

\* a payment with utm_source "Op" and one with no attribution
PayOp ==
    [payment_id |-> "P1", source |-> <<"O", "p">>, medium |-> <<>>,
     user_class |-> NoneId, total_cost |-> 100, user |-> UserKnown]
PaySite ==
    [payment_id |-> "P2", source |-> <<>>, medium |-> <<>>,
     user_class |-> 9, total_cost |-> 200, user |-> UserKnown]

\* a payment of a 7th-grade payer that came through a partner link
PayPartner ==
    [payment_id |-> "P3", source |-> <<"T", "b">>, medium |-> <<>>,
     user_class |-> 7, total_cost |-> 300, user |-> UserKnown]

Payments == {PayOp, PaySite, PayPartner}

\* two payments of different payers that carry no payment_id
UserNew == [tg |-> "", phone |-> "ph3", email |-> "em3"]
PayAnonA ==
    [payment_id |-> "", source |-> <<>>, medium |-> <<>>,
     user_class |-> 9, total_cost |-> 400, user |-> UserKnown]
PayAnonB ==
    [payment_id |-> "", source |-> <<>>, medium |-> <<>>,
     user_class |-> 9, total_cost |-> 500, user |-> UserNew]

\* deal names (transliterated): the canonical payment title "Oplata: EGE"
\* and any other title
NamePaymentEge == "Oplata: EGE"
NameOther == "Zayavka s sayta"
\* target_names of find_op_lead
TargetNames == {"Oplata: OGE", "Oplata: EGE", "Oplata: Srednyaya shkola"}

ContactKnown == [keys |-> {"ph1", "em1"}, created_by |-> 0]
\* another person's contact
ContactOther == [keys |-> {"ph2"}, created_by |-> 0]

Deal(name, pipeline, status) ==
    [name |-> name, pipeline_id |-> pipeline, status_id |-> status,
     price |-> 50, contacts |-> <<1>>, is_deleted |-> FALSE,
     updated_at |-> 1, purchase_count |-> purchase_count_enum(1),
     responsible_user_id |-> 7,
     hits |-> {}, utm_source |-> <<"v", "k">>, notes |-> 0, tasks |-> 0,
     created_for |-> ""]

\* a CRM in which the payer shares a deal with another person (who is the
\* deal's first contact), has an older deal of his own, a deleted deal, and
\* in which the search also returns a deal he is not linked to
SharedDealLeads ==
    << [Deal(NamePaymentEge, AMO_PIPELINE_SITE, STATUS_IN_WORK)
            EXCEPT !.contacts = <<2, 1>>],
       [Deal(NamePaymentEge, AMO_PIPELINE_SITE, STATUS_IN_WORK)
            EXCEPT !.updated_at = 0],
       [Deal(NamePaymentEge, AMO_PIPELINE_SITE, STATUS_IN_WORK)
            EXCEPT !.is_deleted = TRUE],
       [Deal(NamePaymentEge, AMO_PIPELINE_SITE, STATUS_IN_WORK)
            EXCEPT !.contacts = <<2>>, !.hits = {"ph1"}] >>

\* the CRM before the run: empty; a worked "Oplata: EGE" deal of the payer;
\* the same deal in an untouched stage; a worked deal in a pipeline only
\* the broad search covers (its purchase counter is at the top of the
\* range); the shared-deal CRM
Worlds ==
    { [contacts |-> <<>>, leads |-> <<>>],
      [contacts |-> <<ContactKnown>>,
       leads |-> <<Deal(NamePaymentEge, AMO_PIPELINE_SITE, STATUS_IN_WORK)>>],
      [contacts |-> <<ContactKnown>>,
       leads |-> <<Deal(NamePaymentEge, AMO_PIPELINE_SITE, 41044773)>>],
      [contacts |-> <<ContactKnown>>,
       leads |-> <<[Deal(NameOther, PIPELINE_SITE_TG, STATUS_IN_WORK)
                       EXCEPT !.purchase_count = purchase_count_enum(10)]>>],
      [contacts |-> <<ContactKnown, ContactOther>>,
       leads |-> SharedDealLeads] }

\* ------------------------------------------------------------------------
\* State
\* ------------------------------------------------------------------------

VARIABLES
    ledger,       \* payment_events: the rows in insertion order
    contacts,     \* CRM contacts, a contact's id is its index
    leads,        \* CRM deals, a deal's id is its index
    clock,        \* CRM time, stamps updated_at
    faults,       \* failures the environment may still inject
    call,         \* call[c]: the locals and position of process_payment call c
    reqOutcomes,  \* _make_request: what each attempt of the request will do
    reqAttempt,   \* _make_request: attempts made so far
    reqState,     \* _make_request: "idle", "running", "returned", "raised"
    fn,           \* a pure function under test: its arguments and its return value
    http,         \* http[c]: the request and the response of endpoint call c
    batch         \* process_payment_batch_parallel: semaphore, units, results

vars == <<ledger, contacts, leads, clock, faults, call, reqOutcomes, reqAttempt, reqState, fn, http, batch>>
engineVars == <<ledger, contacts, leads, clock, faults, call>>
retryVars == <<reqOutcomes, reqAttempt, reqState>>
outerVars == <<fn, http, batch>>

NoLead == [id |-> NoneId, pipeline_id |-> NoneId, status_id |-> NoneId, contacts |-> <<>>, utm_source |-> <<>>]

IdleCall ==
    [pc |-> "idle", payment |-> PayOp, payment_id |-> "", strategy |-> "",
     contact |-> NoneId, cands |-> {}, path |-> "",
     contact_id |-> NoneId, lead_id |-> NoneId,
     pipeline_id |-> NoneId, status_id |-> NoneId, patch_status |-> NoneId,
     cur_count |-> 0, responsible |-> NoneId,
     exc |-> "", result |-> "", raised |-> FALSE,
     checked |-> FALSE, rowAtCheck |-> FALSE, crm |-> 0, log |-> <<>>,
     failed |-> {}, dbFault |-> FALSE, startedAfter |-> {},
     finds |-> <<>>, dirty |-> FALSE, written |-> NoneId]

InitEngine ==
    /\ ledger = <<>>
    /\ \E w \in Worlds : contacts = w.contacts /\ leads = w.leads
    /\ clock = 1
    /\ faults = MaxFaults
    /\ call = [c \in Calls |-> IdleCall]

RetryIdle ==
    /\ reqOutcomes = <<>>
    /\ reqAttempt = 0
    /\ reqState = "idle"

\* no function is under test
FnIdle == [op |-> "", args |-> <<>>, ret |-> <<>>, returned |-> FALSE]

\* the X-WEBHOOK-SECRET header is absent (Header(None)) or empty
NoSignature == [key |-> "", msg |-> "", ascii |-> TRUE]

\* no request body
NoBody == [id |-> "", syntax |-> "", doc |-> <<>>]

\* a response without detail (no HTTPException) / without JSON content
NoDetail == <<"", "">>
NoContent ==
    [status |-> "", message |-> NoDetail, payment_id |-> "",
     contact_id |-> NoneId, lead_id |-> NoneId]

\* endpoint call c has received no request
NoRequest ==
    [pc |-> "none", signature |-> NoSignature, body |-> NoBody,
     parsed |-> FALSE, status_code |-> NoneId, detail |-> NoDetail,
     content |-> NoContent]

\* no batch is being processed
NoBatch ==
    [pc |-> "none", payments |-> <<>>, semaphore |-> 0, unit |-> <<>>,
     all_results |-> <<>>, summary |-> <<>>]

\* the layers around the engine are not in use
OuterIdle ==
    /\ fn = FnIdle
    /\ http = [c \in Calls |-> NoRequest]
    /\ batch = NoBatch

\* the engine at rest on an empty CRM, for the specifications that exercise
\* one function
EngineAtRest ==
    /\ ledger = <<>>
    /\ contacts = <<>>
    /\ leads = <<>>
    /\ clock = 1
    /\ faults = MaxFaults
    /\ call = [c \in Calls |-> IdleCall]

Init == InitEngine /\ RetryIdle /\ OuterIdle

\* ------------------------------------------------------------------------
\* Ledger (EventLogger)
\* ------------------------------------------------------------------------

Min(S) == CHOOSE x \in S : \A y \in S : x <= y

Range(f) == {f[i] : i \in DOMAIN f}

RowsFor(l, pid) == {i \in DOMAIN l : l[i].payment_id = pid}

\* mutant: the existence test is off by one (count > 1)
is_payment_processed_gt1(l, pid) == Cardinality(RowsFor(l, pid)) > 1

\* mutant: the dedup gate never reports a processed payment
is_payment_processed_never(l, pid) == FALSE

\* mutant: only a 'success' row makes a payment processed
is_payment_processed_success(l, pid) ==
    \E i \in RowsFor(l, pid) : l[i].status = "success"

\* EventLogger.is_payment_processed: SELECT COUNT(*) ... ; count > 0
is_payment_processed(l, pid) == Cardinality(RowsFor(l, pid)) > 0

\* mutant: the payment_id column has no UNIQUE constraint
UniqueViolation_none(l, pid) == FALSE

\* payment_id TEXT NOT NULL UNIQUE: does inserting a row for pid violate it
UniqueViolation(l, pid) == \E i \in DOMAIN l : l[i].payment_id = pid

\* the row log_payment inserts
LedgerRow(pid, amount, status, contact_id, lead_id, pipeline_id, status_id, is_lead_created, error) ==
    [payment_id |-> pid, amount |-> amount, status |-> status,
     contact_id |-> contact_id, lead_id |-> lead_id,
     pipeline_id |-> pipeline_id, status_id |-> status_id,
     is_lead_created |-> IF is_lead_created THEN 1 ELSE 0,
     last_error |-> error]

\* EventLogger.log_payment: "ok", or the exception it re-raises
log_payment_outcome(l, row, dbOk) ==
    IF ~dbOk THEN "Exception"
    ELSE IF UniqueViolation(l, row.payment_id) THEN "IntegrityError"
    ELSE "ok"

\* mutant: the insert is never committed
log_payment_table_nocommit(l, row, dbOk) == l

\* the table after log_payment
log_payment_table(l, row, dbOk) ==
    IF log_payment_outcome(l, row, dbOk) = "ok" THEN Append(l, row) ELSE l

\* ------------------------------------------------------------------------
\* CRM gateway (AmoCRMClient): searches
\* ------------------------------------------------------------------------

Tiers == <<"tg", "phone", "email">>

\* GET /api/v4/contacts?query=q : the contacts the CRM index returns for q
QueryContacts(cs, q) == {id \in DOMAIN cs : q \in cs[id].keys}

\* GET /api/v4/leads?filter[query]=q : deals matching q by their own text or
\* through a linked contact (the search is not contact-scoped)
QueryLeads(ls, cs, q) ==
    {id \in DOMAIN ls :
        \/ q \in ls[id].hits
        \/ \E k \in Range(ls[id].contacts) : k \in DOMAIN cs /\ q \in cs[k].keys}

\* one tier of find_contact: a failed search yields no contact
TierHit(cs, user, t, failT) ==
    IF user[t] = "" \/ t \in failT THEN {} ELSE QueryContacts(cs, user[t])

\* the tiers find_contact runs: non-empty keys, stopping at the first match
TiersTried(cs, user, failT) ==
    {Tiers[i] : i \in {j \in 1..3 :
        /\ user[Tiers[j]] # ""
        /\ \A k \in 1..(j - 1) : TierHit(cs, user, Tiers[k], failT) = {}}}

\* mutant: the failure of a search ends find_contact with no contact
find_contact_abort(cs, user, failT) ==
    LET hit(t) == TierHit(cs, user, t, {})
    IN  IF \E t \in failT : user[t] # "" THEN NoneId
        ELSE IF hit("tg") # {} THEN Min(hit("tg"))
        ELSE IF hit("phone") # {} THEN Min(hit("phone"))
        ELSE IF hit("email") # {} THEN Min(hit("email"))
        ELSE NoneId

\* AmoCRMClient.find_contact: tg_id, then phone, then email; first match
find_contact(cs, user, failT) ==
    LET hit(t) == TierHit(cs, user, t, failT)
    IN  IF hit("tg") # {} THEN Min(hit("tg"))
        ELSE IF hit("phone") # {} THEN Min(hit("phone"))
        ELSE IF hit("email") # {} THEN Min(hit("email"))
        ELSE NoneId

\* find_op_lead: the three deal searches, a failed one contributes nothing
search_leads(ls, cs, user, failQ) ==
    UNION {IF user[Tiers[i]] = "" \/ Tiers[i] \in failQ THEN {}
           ELSE QueryLeads(ls, cs, user[Tiers[i]]) : i \in 1..3}

\* find_op_lead: allowed_pipelines per scenario
AllowedPipelines(strategy) ==
    IF strategy = "B"
    THEN {AMO_PIPELINE_SITE, PIPELINE_SITE_TG, AMO_PIPELINE_YANDEX,
          AMO_PIPELINE_PARTNERS, PIPELINE_VK_EGE, PIPELINE_VK_OGE,
          PIPELINE_TG_EGE, PIPELINE_TG_OGE, PIPELINE_TG_BOTS, PIPELINE_TG_AI,
          PIPELINE_TG_PARENTS, PIPELINE_WEBINARS, PIPELINE_7_8_CLASS}
    ELSE {AMO_PIPELINE_SITE, PIPELINE_7_8_CLASS}

\* find_op_lead: excluded_statuses per scenario
ExcludedStatuses(strategy) ==
    IF strategy = "B"
    THEN {AMO_STATUS_AUTOPAY_SITE, PIPELINE_SITE_TG_AUTOPAY,
          AMO_STATUS_AUTOPAY_YANDEX, PIPELINE_WEBINARS_AUTOPAY,
          AMO_STATUS_AUTOPAY_PARTNERS, PIPELINE_7_8_CLASS_AUTOPAY,
          STATUS_SUCCESS, STATUS_CLOSED}
    ELSE {AMO_STATUS_AUTOPAY_SITE, PIPELINE_7_8_CLASS_AUTOPAY,
          STATUS_SUCCESS, STATUS_CLOSED}

\* find_op_lead: candidates whose re-fetch succeeded and lists the contact
verified_leads(ls, cands, contact, failV) ==
    {id \in cands \ failV : contact \in Range(ls[id].contacts)}

\* find_op_lead: pipeline / stage / deleted filter, then the name filter of
\* the narrow search
filtered_leads(ls, verified, strategy) ==
    {id \in verified :
        /\ ls[id].pipeline_id \in AllowedPipelines(strategy)
        /\ ls[id].status_id \notin ExcludedStatuses(strategy)
        /\ ~ls[id].is_deleted
        /\ (strategy = "A" => ls[id].name \in TargetNames)}

\* mutant: the least recently updated deal is selected
latest_leads_oldest(ls, filtered) ==
    {id \in filtered : \A o \in filtered : ls[id].updated_at <= ls[o].updated_at}

\* find_op_lead: max(filtered_leads, key=updated_at); ties are resolved by
\* the order of the CRM's answer, which the model leaves open
latest_leads(ls, filtered) ==
    {id \in filtered : \A o \in filtered : ls[o].updated_at <= ls[id].updated_at}

\* the deal as returned by the re-fetch (lead_with_contacts)
LeadSnapshot(ls, id) ==
    [id |-> id, pipeline_id |-> ls[id].pipeline_id,
     status_id |-> ls[id].status_id, contacts |-> ls[id].contacts,
     utm_source |-> ls[id].utm_source]

\* ------------------------------------------------------------------------
\* process_payment, one action per awaited operation
\* ------------------------------------------------------------------------
\* Bookkeeping fields of call[c] that the code does not have: checked (the
\* dedup read was issued), rowAtCheck (a row for the payment_id existed at
\* that moment), crm (gateway calls issued so far), log (the outcome of each
\* log_payment call so far), failed (the gateway operations that failed
\* after their retries), dbFault (a database operation of the call failed),
\* raised (an exception reached the handler), startedAfter (the calls that
\* had returned when this one started), finds (the find_op_lead calls that
\* have returned: strategy, resolved contact, returned deal, and whether
\* every read succeeded), dirty (a read of the running find_op_lead
\* failed), written (the purchase count the call's PATCH wrote).

\* the call issues one more gateway call
Crm(r) == [r EXCEPT !.crm = @ + 1]

\* mutant: the exception is swallowed and the call goes on to record success
Raise_swallowed(r, msg) == [r EXCEPT !.exc = msg, !.pc = "log_success"]

\* an exception reaches the handler "except Exception as e" of process_payment
Raise(r, msg) == [r EXCEPT !.exc = msg, !.raised = TRUE, !.pc = "log_error"]

\* a gateway request failed after its retries
Failed(r, step) == [r EXCEPT !.failed = @ \cup {step}]

\* find_op_lead and find_contact_by_*: the failure of a read is caught and
\* logged, the search goes on without its answer
LookupFailed(r, step) == [Failed(r, step) EXCEPT !.dirty = TRUE]

\* mutant: a failed task creation fails the payment
TaskFailed_raises(r) == Raise(Failed(r, "create_task"), "create_task failed")

\* process_payment: "except Exception as task_error" around the task creation
TaskFailed(r) == [Failed(r, "create_task") EXCEPT !.pc = "log_success"]

\* mutant: the untouched-stage check is skipped
Override_skip(lead) == lead

\* process_payment step 2.5: a found deal in an untouched stage is dropped
Override(lead) ==
    IF lead.id # NoneId /\ lead.status_id \in UNPROCESSED_STATUSES(lead.pipeline_id)
    THEN NoLead ELSE lead

\* the record of a find_op_lead call that has returned
FindRecord(r, lead) ==
    [strategy |-> r.strategy, contact |-> r.contact, lead |-> lead,
     clean |-> ~r.dirty]

\* the outcomes the environment can give a request: every outcome of the
\* retry loop, a failure only while the fault budget lasts
Outcomes == {res \in RequestResults : res = "raise" => faults > 0}

Spend(res) == faults' = IF res = "ok" THEN faults ELSE faults - 1

\* mutant: the untouched-stage check comes before the decision to search
\* again, so a discarded candidate counts as nothing found
AfterFind_override_first(r0, lead) ==
    LET r == [r0 EXCEPT !.finds = Append(@, FindRecord(r0, lead)),
                        !.dirty = FALSE]
        existing_lead == Override(lead)
    IN
    IF r.strategy = "A" /\ is_op_payment(r.payment) /\ existing_lead.id = NoneId
    THEN [r EXCEPT !.strategy = "B", !.pc = "find_contact",
                   !.contact = NoneId, !.cands = {}]
    ELSE
      LET r1 == [r EXCEPT !.contact = NoneId, !.cands = {}]
      IN  IF existing_lead.id # NoneId
          THEN LET cid == IF existing_lead.contacts # <<>>
                          THEN existing_lead.contacts[1] ELSE NoneId
               IN  IF cid = NoneId
                   THEN Raise([r1 EXCEPT !.lead_id = existing_lead.id],
                              "Lead has no contacts")
                   ELSE [r1 EXCEPT !.path = "existing", !.pc = "upd_get",
                                   !.lead_id = existing_lead.id,
                                   !.contact_id = cid,
                                   !.pipeline_id = existing_lead.pipeline_id,
                                   !.status_id = existing_lead.status_id,
                                   !.patch_status = NoneId]
          ELSE LET target == determine_pipeline_and_status(
                                 r1.payment, r1.payment.user_class)
               IN  [r1 EXCEPT !.path = "new", !.pc = "create_contact",
                              !.pipeline_id = target[1],
                              !.status_id = target[2],
                              !.patch_status = target[2]]

\* mutant: a found deal without contacts is updated like any other
AfterFind_unguarded(r0, lead) ==
    LET r == [r0 EXCEPT !.finds = Append(@, FindRecord(r0, lead)),
                        !.dirty = FALSE]
    IN
    IF r.strategy = "A" /\ is_op_payment(r.payment) /\ lead.id = NoneId
    THEN [r EXCEPT !.strategy = "B", !.pc = "find_contact",
                   !.contact = NoneId, !.cands = {}]
    ELSE
      LET existing_lead == Override(lead)
          r1 == [r EXCEPT !.contact = NoneId, !.cands = {}]
      IN  IF existing_lead.id # NoneId
          THEN [r1 EXCEPT !.path = "existing", !.pc = "upd_get",
                          !.lead_id = existing_lead.id,
                          !.contact_id = IF existing_lead.contacts # <<>>
                                         THEN existing_lead.contacts[1]
                                         ELSE NoneId,
                          !.pipeline_id = existing_lead.pipeline_id,
                          !.status_id = existing_lead.status_id,
                          !.patch_status = NoneId]
          ELSE LET target == determine_pipeline_and_status(
                                 r1.payment, r1.payment.user_class)
               IN  [r1 EXCEPT !.path = "new", !.pc = "create_contact",
                              !.pipeline_id = target[1],
                              !.status_id = target[2],
                              !.patch_status = target[2]]

\* the code of process_payment that follows a find_op_lead call: the second
\* search for utm_source=op, the untouched-stage override, and the choice
\* between the existing-deal and the new-deal path
AfterFind(r0, lead) ==
    LET r == [r0 EXCEPT !.finds = Append(@, FindRecord(r0, lead)),
                        !.dirty = FALSE]
    IN
    IF r.strategy = "A" /\ is_op_payment(r.payment) /\ lead.id = NoneId
    THEN [r EXCEPT !.strategy = "B", !.pc = "find_contact",
                   !.contact = NoneId, !.cands = {}]
    ELSE
      LET existing_lead == Override(lead)
          r1 == [r EXCEPT !.contact = NoneId, !.cands = {}]
      IN  IF existing_lead.id # NoneId
          THEN LET cid == IF existing_lead.contacts # <<>>
                          THEN existing_lead.contacts[1] ELSE NoneId
               IN  IF cid = NoneId
                   THEN Raise([r1 EXCEPT !.lead_id = existing_lead.id],
                              "Lead has no contacts")
                   ELSE [r1 EXCEPT !.path = "existing", !.pc = "upd_get",
                                   !.lead_id = existing_lead.id,
                                   !.contact_id = cid,
                                   !.pipeline_id = existing_lead.pipeline_id,
                                   !.status_id = existing_lead.status_id,
                                   !.patch_status = NoneId]
          ELSE LET target == determine_pipeline_and_status(
                                 r1.payment, r1.payment.user_class)
               IN  [r1 EXCEPT !.path = "new", !.pc = "create_contact",
                              !.pipeline_id = target[1],
                              !.status_id = target[2],
                              !.patch_status = target[2]]

\* the row of log_payment(status="success", ...) on either path
SuccessRow(r) ==
    LedgerRow(r.payment_id, r.payment.total_cost, "success", r.contact_id,
              r.lead_id, r.pipeline_id, r.status_id, r.path = "new", "")

\* mutant: the handler forgets error=str(e)
ErrorRow_nomessage(r) ==
    LedgerRow(r.payment_id, r.payment.total_cost, "error", NoneId, NoneId,
              NoneId, NoneId, FALSE, "")

\* the row of log_payment(status="error", error=str(e), ...) in the handler
ErrorRow(r) ==
    LedgerRow(r.payment_id, r.payment.total_cost, "error", NoneId, NoneId,
              NoneId, NoneId, FALSE, r.exc)

\* mutant: on the existing-deal path the follow-up task is created after
\* the ledger write instead of before it
ReturnSuccess_then_task(r) ==
    IF r.path = "existing" /\ r.failed = {}
    THEN [r EXCEPT !.pc = "task_get"]
    ELSE [r EXCEPT !.result = "success", !.pc = "done"]

\* mutant: after the ledger write the call waits for something that never
\* comes and does not return
ReturnSuccess_hang(r) == [r EXCEPT !.pc = "hang"]

\* return ProcessResult(status="success", ...) right after the ledger write
ReturnSuccess(r) == [r EXCEPT !.result = "success", !.pc = "done"]

\* mutant: no inner try/except, a failed error-record write propagates
ReturnError_reraise(r) ==
    IF r.log[Len(r.log)] # "ok"
    THEN [r EXCEPT !.result = "raised", !.pc = "done"]
    ELSE [r EXCEPT !.result = "error", !.pc = "done"]

\* the handler after its own log_payment call: a failure of that call is
\* caught by the inner "except Exception as log_error", then the handler
\* returns ProcessResult(status="error")
ReturnError(r) == [r EXCEPT !.result = "error", !.pc = "done"]

\* a request of the webhook layer enters process_payment
Start(c) ==
    /\ call[c].pc = "idle"
    /\ \A d \in Calls : d < c => call[d].pc # "idle"
    /\ \E p \in Payments :
         call' = [call EXCEPT ![c] =
                    [@ EXCEPT !.pc = "dedup", !.payment = p,
                              !.payment_id = IF p.payment_id = "" THEN "unknown"
                                             ELSE p.payment_id,
                              !.startedAfter = {d \in Calls : call[d].pc = "done"}]]
    /\ UNCHANGED <<ledger, contacts, leads, clock, faults, retryVars, outerVars>>

\* step 1: await self.event_logger.is_payment_processed(payment_id)
DedupCheck(c) ==
    /\ call[c].pc = "dedup"
    /\ \E dbOk \in {b \in BOOLEAN : ~b => faults > 0} :
         LET r == [call[c] EXCEPT
                      !.checked = TRUE,
                      !.rowAtCheck = RowsFor(ledger, call[c].payment_id) # {}]
         IN  /\ faults' = IF dbOk THEN faults ELSE faults - 1
             /\ call' = [call EXCEPT ![c] =
                 IF ~dbOk
                 THEN Raise([r EXCEPT !.dbFault = TRUE], "database error")
                 ELSE IF is_payment_processed(ledger, r.payment_id)
                      THEN [r EXCEPT !.result = "duplicate", !.pc = "done"]
                      ELSE [r EXCEPT !.strategy = "A", !.pc = "find_contact"]]
    /\ UNCHANGED <<ledger, contacts, leads, clock, retryVars, outerVars>>

\* find_op_lead: contact = await self.find_contact(telegram_id, phone, email)
FindContact(c) ==
    /\ call[c].pc = "find_contact"
    /\ \E failT \in SUBSET Range(Tiers) :
         LET r0 == Crm(call[c])
             user == r0.payment.user
             r == IF failT = {} THEN r0 ELSE LookupFailed(r0, "find_contact")
             found == find_contact(contacts, user, failT)
         IN  /\ failT \subseteq TiersTried(contacts, user, failT)
             /\ Cardinality(failT) <= faults
             /\ (failT # {} => "raise" \in RequestResults)
             /\ faults' = faults - Cardinality(failT)
             /\ call' = [call EXCEPT ![c] =
                   IF found = NoneId
                   THEN AfterFind(r, NoLead)
                   ELSE [r EXCEPT !.contact = found, !.pc = "search_leads"]]
    /\ UNCHANGED <<ledger, contacts, leads, clock, retryVars, outerVars>>

\* find_op_lead: the deal searches by telegram_id, phone and email
SearchLeads(c) ==
    /\ call[c].pc = "search_leads"
    /\ \E failQ \in SUBSET Range(Tiers) :
         LET r0 == Crm(call[c])
             user == r0.payment.user
             r == IF failQ = {} THEN r0 ELSE LookupFailed(r0, "search_leads")
             found == search_leads(leads, contacts, user, failQ)
         IN  /\ \A t \in failQ : user[t] # ""
             /\ Cardinality(failQ) <= faults
             /\ (failQ # {} => "raise" \in RequestResults)
             /\ faults' = faults - Cardinality(failQ)
             /\ call' = [call EXCEPT ![c] =
                   IF found = {}
                   THEN AfterFind(r, NoLead)
                   ELSE [r EXCEPT !.cands = found, !.pc = "verify_leads"]]
    /\ UNCHANGED <<ledger, contacts, leads, clock, retryVars, outerVars>>

\* find_op_lead: the per-candidate re-fetch, the filters and the selection
VerifyLeads(c) ==
    /\ call[c].pc = "verify_leads"
    /\ \E failV \in SUBSET call[c].cands :
         LET r0 == Crm(call[c])
             r == IF failV = {} THEN r0 ELSE LookupFailed(r0, "verify_lead")
             verified == verified_leads(leads, r.cands, r.contact, failV)
             filtered == filtered_leads(leads, verified, r.strategy)
             latest == latest_leads(leads, filtered)
         IN  /\ Cardinality(failV) <= faults
             /\ (failV # {} => "raise" \in RequestResults)
             /\ faults' = faults - Cardinality(failV)
             /\ IF latest = {}
                THEN call' = [call EXCEPT ![c] = AfterFind(r, NoLead)]
                ELSE \E id \in latest :
                       call' = [call EXCEPT ![c] =
                                  AfterFind(r, LeadSnapshot(leads, id))]
    /\ UNCHANGED <<ledger, contacts, leads, clock, retryVars, outerVars>>

\* mutant: the contact is looked up first and reused when it exists
create_contact_reuse(cs, user, c) ==
    IF find_contact(cs, user, {}) # NoneId
    THEN [table |-> cs, id |-> find_contact(cs, user, {})]
    ELSE [table |-> Append(cs, [keys |-> {user[t] : t \in Range(Tiers)} \ {""},
                                created_by |-> c]),
          id |-> Len(cs) + 1]

\* AmoCRMClient.create_contact: POST /api/v4/contacts, a new contact with
\* the payer's phone, email and telegram id; returns its id
create_contact(cs, user, c) ==
    [table |-> Append(cs, [keys |-> {user[t] : t \in Range(Tiers)} \ {""},
                           created_by |-> c]),
     id |-> Len(cs) + 1]

\* mutant: create_lead ignores pipeline_id / status_id and uses the defaults
create_lead_default_pipeline(r, now) ==
    [name |-> "Oplata platformy", pipeline_id |-> AMO_PIPELINE_SITE,
     status_id |-> AMO_STATUS_AUTOPAY_SITE, price |-> r.payment.total_cost,
     contacts |-> <<r.contact_id>>, is_deleted |-> FALSE, updated_at |-> now,
     purchase_count |-> NoneId, responsible_user_id |-> 7, hits |-> {},
     utm_source |-> r.payment.source, notes |-> 0, tasks |-> 0,
     created_for |-> r.payment_id]

\* AmoCRMClient.create_lead: the deal POST /api/v4/leads creates
create_lead(r, now) ==
    [name |-> "Oplata platformy", pipeline_id |-> r.pipeline_id,
     status_id |-> r.status_id, price |-> r.payment.total_cost,
     contacts |-> <<r.contact_id>>, is_deleted |-> FALSE, updated_at |-> now,
     purchase_count |-> NoneId, responsible_user_id |-> 7, hits |-> {},
     utm_source |-> r.payment.source, notes |-> 0, tasks |-> 0,
     created_for |-> r.payment_id]


\* mutant: the budget is added to the deal's price
update_lead_fields_sum(lead, r, skip_utm, now) ==
    [lead EXCEPT
       !.price = @ + r.payment.total_cost,
       !.purchase_count = IF purchase_count_enum(r.cur_count + 1) # NoneId
                          THEN purchase_count_enum(r.cur_count + 1) ELSE @,
       !.status_id = IF r.patch_status # NoneId THEN r.patch_status ELSE @,
       !.utm_source = IF ~skip_utm /\ r.payment.source # <<>>
                      THEN r.payment.source ELSE @,
       !.updated_at = now]

\* mutant: the purchase count is written as read
update_lead_fields_noinc(lead, r, skip_utm, now) ==
    [lead EXCEPT
       !.price = r.payment.total_cost,
       !.purchase_count = IF purchase_count_enum(r.cur_count) # NoneId
                          THEN purchase_count_enum(r.cur_count) ELSE @,
       !.status_id = IF r.patch_status # NoneId THEN r.patch_status ELSE @,
       !.utm_source = IF ~skip_utm /\ r.payment.source # <<>>
                      THEN r.payment.source ELSE @,
       !.updated_at = now]

\* mutant: skip_utm is ignored, the payment's utm_source is written
update_lead_fields_utm(lead, r, skip_utm, now) ==
    [lead EXCEPT
       !.price = r.payment.total_cost,
       !.purchase_count = IF purchase_count_enum(r.cur_count + 1) # NoneId
                          THEN purchase_count_enum(r.cur_count + 1) ELSE @,
       !.status_id = IF r.patch_status # NoneId THEN r.patch_status ELSE @,
       !.utm_source = IF r.payment.source # <<>> THEN r.payment.source ELSE @,
       !.updated_at = now]

\* AmoCRMClient.update_lead_fields: the deal after PATCH /api/v4/leads/{id}
\* with price = total_paid, the purchase count read by the GET plus one
\* (left out when out of range), status_id when given, the utm fields when
\* given (_update_lead_fields passes none under skip_utm)
update_lead_fields(lead, r, skip_utm, now) ==
    [lead EXCEPT
       !.price = r.payment.total_cost,
       !.purchase_count = IF purchase_count_enum(r.cur_count + 1) # NoneId
                          THEN purchase_count_enum(r.cur_count + 1) ELSE @,
       !.status_id = IF r.patch_status # NoneId THEN r.patch_status ELSE @,
       !.utm_source = IF ~skip_utm /\ r.payment.source # <<>>
                      THEN r.payment.source ELSE @,
       !.updated_at = now]

\* new-deal path: contact_id = await self.client.create_contact(...)
CreateContact(c) ==
    /\ call[c].pc = "create_contact"
    /\ \E res \in Outcomes :
         LET r == Crm(call[c])
             user == r.payment.user
         IN  /\ Spend(res)
             /\ IF res = "ok"
                THEN /\ contacts' = create_contact(contacts, user, c).table
                     /\ call' = [call EXCEPT ![c] =
                           [r EXCEPT !.contact_id =
                                        create_contact(contacts, user, c).id,
                                     !.pc = "create_lead"]]
                ELSE /\ contacts' = contacts
                     /\ call' = [call EXCEPT ![c] =
                           Raise(Failed(r, "create_contact"),
                                 "create_contact failed")]
    /\ UNCHANGED <<ledger, leads, clock, retryVars, outerVars>>

\* new-deal path: lead_id = await self.client.create_lead(...)
CreateLead(c) ==
    /\ call[c].pc = "create_lead"
    /\ \E res \in Outcomes :
         LET r == Crm(call[c])
         IN  /\ Spend(res)
             /\ IF res = "ok"
                THEN /\ leads' = Append(leads, create_lead(r, clock + 1))
                     /\ clock' = clock + 1
                     /\ call' = [call EXCEPT ![c] =
                           [r EXCEPT !.lead_id = Len(leads) + 1,
                                     !.pc = "upd_get"]]
                ELSE /\ UNCHANGED <<leads, clock>>
                     /\ call' = [call EXCEPT ![c] =
                           Raise(Failed(r, "create_lead"), "create_lead failed")]
    /\ UNCHANGED <<ledger, contacts, retryVars, outerVars>>

\* update_lead_fields: GET /api/v4/leads/{lead_id}, reads the purchase count
UpdateLeadGet(c) ==
    /\ call[c].pc = "upd_get"
    /\ \E res \in Outcomes :
         LET r == Crm(call[c])
         IN  /\ Spend(res)
             /\ call' = [call EXCEPT ![c] =
                  IF res = "ok"
                  THEN [r EXCEPT !.cur_count = purchase_count_value(
                                                leads[r.lead_id].purchase_count),
                                 !.pc = "upd_patch"]
                  ELSE Raise(Failed(r, "update_lead_fields"),
                             "update_lead_fields failed")]
    /\ UNCHANGED <<ledger, contacts, leads, clock, retryVars, outerVars>>

\* update_lead_fields: PATCH /api/v4/leads/{lead_id}
UpdateLeadPatch(c) ==
    /\ call[c].pc = "upd_patch"
    /\ \E res \in Outcomes :
         LET r == Crm(call[c])
             patched == update_lead_fields(leads[r.lead_id], r, TRUE, clock + 1)
         IN  /\ Spend(res)
             /\ IF res = "ok"
                THEN /\ leads' = [leads EXCEPT ![r.lead_id] = patched]
                     /\ clock' = clock + 1
                     /\ call' = [call EXCEPT ![c] =
                           [r EXCEPT !.written =
                                        purchase_count_enum(r.cur_count + 1),
                                     !.pc = "add_note"]]
                ELSE /\ UNCHANGED <<leads, clock>>
                     /\ call' = [call EXCEPT ![c] =
                           Raise(Failed(r, "update_lead_fields"),
                                 "update_lead_fields failed")]
    /\ UNCHANGED <<ledger, contacts, retryVars, outerVars>>

\* mutant: a failed note is logged and the call goes on, as for the task
AddNote_besteffort(c) ==
    /\ call[c].pc = "add_note"
    /\ \E res \in Outcomes :
         LET r == Crm(call[c])
             next == IF r.path = "existing" THEN "task_get" ELSE "log_success"
         IN  /\ Spend(res)
             /\ IF res = "ok"
                THEN /\ leads' = [leads EXCEPT ![r.lead_id].notes = @ + 1]
                     /\ call' = [call EXCEPT ![c] = [r EXCEPT !.pc = next]]
                ELSE /\ leads' = leads
                     /\ call' = [call EXCEPT ![c] =
                           [Failed(r, "add_lead_note") EXCEPT !.pc = next]]
    /\ UNCHANGED <<ledger, contacts, clock, retryVars, outerVars>>

\* await self._add_payment_note(lead_id, payment)
AddNote(c) ==
    /\ call[c].pc = "add_note"
    /\ \E res \in Outcomes :
         LET r == Crm(call[c])
         IN  /\ Spend(res)
             /\ IF res = "ok"
                THEN /\ leads' = [leads EXCEPT ![r.lead_id].notes = @ + 1]
                     /\ call' = [call EXCEPT ![c] =
                           [r EXCEPT !.pc = IF r.path = "existing"
                                            THEN "task_get" ELSE "log_success"]]
                ELSE /\ leads' = leads
                     /\ call' = [call EXCEPT ![c] =
                           Raise(Failed(r, "add_lead_note"),
                                 "add_lead_note failed")]
    /\ UNCHANGED <<ledger, contacts, clock, retryVars, outerVars>>

\* create_task_for_contact_manager: GET the deal for responsible_user_id;
\* the caller swallows every failure of the task creation
CreateTaskGet(c) ==
    /\ call[c].pc = "task_get"
    /\ \E res \in Outcomes :
         LET r == Crm(call[c])
         IN  /\ Spend(res)
             /\ call' = [call EXCEPT ![c] =
                  IF res = "ok"
                  THEN IF leads[r.lead_id].responsible_user_id = NoneId
                       THEN [r EXCEPT !.pc = "log_success"]
                       ELSE [r EXCEPT !.responsible =
                                         leads[r.lead_id].responsible_user_id,
                                      !.pc = "task_post"]
                  ELSE TaskFailed(r)]
    /\ UNCHANGED <<ledger, contacts, leads, clock, retryVars, outerVars>>

\* create_task_for_contact_manager: POST /api/v4/tasks
CreateTaskPost(c) ==
    /\ call[c].pc = "task_post"
    /\ \E res \in Outcomes :
         LET r == [Crm(call[c]) EXCEPT !.responsible = NoneId]
         IN  /\ Spend(res)
             /\ IF res = "ok"
                THEN /\ leads' = [leads EXCEPT ![r.lead_id].tasks = @ + 1]
                     /\ call' = [call EXCEPT ![c] =
                           [r EXCEPT !.pc = "log_success"]]
                ELSE /\ leads' = leads
                     /\ call' = [call EXCEPT ![c] = TaskFailed(r)]
    /\ UNCHANGED <<ledger, contacts, clock, retryVars, outerVars>>

\* await self.event_logger.log_payment(status="success", ...) and the return
LogSuccess(c) ==
    /\ call[c].pc = "log_success"
    /\ \E dbOk \in {b \in BOOLEAN : ~b => faults > 0} :
         LET r0 == call[c]
             row == SuccessRow(r0)
             out == log_payment_outcome(ledger, row, dbOk)
             r == [r0 EXCEPT !.log = Append(@, out)]
         IN  /\ faults' = IF dbOk THEN faults ELSE faults - 1
             /\ ledger' = log_payment_table(ledger, row, dbOk)
             /\ call' = [call EXCEPT ![c] =
                   IF out = "ok"
                   THEN ReturnSuccess(r)
                   ELSE Raise([r EXCEPT !.dbFault = @ \/ ~dbOk],
                              IF out = "IntegrityError"
                              THEN "UNIQUE constraint failed"
                              ELSE "database error")]
    /\ UNCHANGED <<contacts, leads, clock, retryVars, outerVars>>

\* the handler: log_payment(status="error", error=str(e)) inside its own
\* try/except, then return ProcessResult(status="error")
LogError(c) ==
    /\ call[c].pc = "log_error"
    /\ \E dbOk \in {b \in BOOLEAN : ~b => faults > 0} :
         LET r0 == call[c]
             row == ErrorRow(r0)
             out == log_payment_outcome(ledger, row, dbOk)
             r == [r0 EXCEPT !.log = Append(@, out)]
         IN  /\ faults' = IF dbOk THEN faults ELSE faults - 1
             /\ ledger' = log_payment_table(ledger, row, dbOk)
             /\ call' = [call EXCEPT ![c] =
                   ReturnError([r EXCEPT !.dbFault = @ \/ ~dbOk])]
    /\ UNCHANGED <<contacts, leads, clock, retryVars, outerVars>>

Next ==
    \/ \E c \in Calls : Start(c)
    \/ \E c \in Calls : DedupCheck(c)
    \/ \E c \in Calls : FindContact(c)
    \/ \E c \in Calls : SearchLeads(c)
    \/ \E c \in Calls : VerifyLeads(c)
    \/ \E c \in Calls : CreateContact(c)
    \/ \E c \in Calls : CreateLead(c)
    \/ \E c \in Calls : UpdateLeadGet(c)
    \/ \E c \in Calls : UpdateLeadPatch(c)
    \/ \E c \in Calls : AddNote(c)
    \/ \E c \in Calls : CreateTaskGet(c)
    \/ \E c \in Calls : CreateTaskPost(c)
    \/ \E c \in Calls : LogSuccess(c)
    \/ \E c \in Calls : LogError(c)

Spec == Init /\ [][Next]_vars

\* the CRM before a run of the fair specification: a worked deal of the
\* payer, or a worked deal only the broad search covers
InitFair ==
    /\ ledger = <<>>
    /\ \E w \in {v \in Worlds : Len(v.leads) = 1 /\ \A i \in DOMAIN v.leads :
                                   v.leads[i].status_id = STATUS_IN_WORK} :
          contacts = w.contacts /\ leads = w.leads
    /\ clock = 1
    /\ faults = MaxFaults
    /\ call = [c \in Calls |-> IdleCall]
    /\ RetryIdle
    /\ OuterIdle

\* the steps of process_payment call c after its entry
Step(c) ==
    \/ DedupCheck(c)
    \/ FindContact(c)
    \/ SearchLeads(c)
    \/ VerifyLeads(c)
    \/ CreateContact(c)
    \/ CreateLead(c)
    \/ UpdateLeadGet(c)
    \/ UpdateLeadPatch(c)
    \/ AddNote(c)
    \/ CreateTaskGet(c)
    \/ CreateTaskPost(c)
    \/ LogSuccess(c)
    \/ LogError(c)

\* the event loop resumes a coroutine whose awaited operation has returned
\* or failed, and every HTTP attempt and database operation does one or
\* the other: a call that can take a step eventually takes one
SpecFair == InitFair /\ [][Next]_vars /\ \A c \in Calls : WF_vars(Step(c))

\* ------------------------------------------------------------------------
\* _make_request attempt by attempt
\* ------------------------------------------------------------------------

InitRetry ==
    /\ InitEngine
    /\ reqOutcomes \in AttemptSeqs
    /\ reqAttempt = 0
    /\ reqState = "running"
    /\ OuterIdle

\* one pass of "async for attempt in AsyncRetrying(...)": the attempt returns,
\* or its exception is retried, or it is surfaced to the caller
MakeRequestAttempt ==
    /\ reqState = "running"
    /\ LET n == reqAttempt + 1
           outcome == reqOutcomes[n]
       IN  /\ reqAttempt' = n
           /\ reqState' =
                 IF outcome = "ok" THEN "returned"
                 ELSE IF RetryPredicate(outcome) /\ ~StopAfterAttempt(n)
                      THEN "running"
                      ELSE "raised"
    /\ UNCHANGED <<engineVars, reqOutcomes, outerVars>>

NextRetry == MakeRequestAttempt

SpecRetry == InitRetry /\ [][NextRetry]_vars

\* ------------------------------------------------------------------------
\* The Attribution Resolver applied to every attribution and grade
\* ------------------------------------------------------------------------

\* user.user_class: absent, or a grade
Grades == {NoneId, 7, 8, 9, 10, 11}

\* utm.source: empty, "op", the partner tokens alone, in mixed case and
\* inside a longer text, a text with the letters of a token apart, a
\* paid-traffic token
UtmSources ==
    { <<>>, <<"o", "p">>, <<"t", "b">>, <<"T", "b">>, <<"x", "T", "B", "y">>,
      <<"t", "x", "b">>, <<"a", "d">>, <<"x", "A", "d">>, <<"c", "p">> }

\* utm.medium: empty, the paid-traffic token alone, in upper case and inside
\* a longer text, a text with its letters apart, a partner token
UtmMediums ==
    { <<>>, <<"c", "p">>, <<"C", "P">>, <<"x", "c", "p", "c">>,
      <<"c", "x", "p">>, <<"t", "b">> }

ResolverArgs == [utm : [source : UtmSources, medium : UtmMediums], user_class : Grades]

InitResolver ==
    /\ EngineAtRest
    /\ RetryIdle
    /\ http = [c \in Calls |-> NoRequest]
    /\ batch = NoBatch
    /\ fn \in {[FnIdle EXCEPT !.op = "determine_pipeline_and_status", !.args = a] :
                  a \in ResolverArgs}

\* pipeline_id, status_id = self.determine_pipeline_and_status(utm, user_class)
Resolve ==
    /\ fn.op = "determine_pipeline_and_status"
    /\ ~fn.returned
    /\ fn' = [fn EXCEPT !.ret = determine_pipeline_and_status(
                                    fn.args.utm, fn.args.user_class),
                        !.returned = TRUE]
    /\ UNCHANGED <<engineVars, retryVars, http, batch>>

NextResolver == Resolve

SpecResolver == InitResolver /\ [][NextResolver]_vars

\* ------------------------------------------------------------------------
\* process_payment_batch_parallel (app/api/webhook_payment.py)
\* ------------------------------------------------------------------------
\* Unit i of the batch runs process_payment as call i of the engine.
\* asyncio starts the tasks of gather in the order of the list and wakes the
\* waiters of a Semaphore first-in first-out, so the units enter in order.

\* the locals of process_payment when it is entered with payment p, the
\* calls in returned having returned before
process_payment_entry(p, returned) ==
    [IdleCall EXCEPT !.pc = "dedup", !.payment = p,
                     !.payment_id = IF p.payment_id = "" THEN "unknown"
                                    ELSE p.payment_id,
                     !.startedAfter = returned]

\* the payments a batch is made of
BatchPayments == {PayOp, PayPartner, PayAnonA}

RECURSIVE SeqsUpTo(_, _)
\* the lists of at most n elements of S
SeqsUpTo(S, n) ==
    IF n = 0 THEN {<<>>}
    ELSE SeqsUpTo(S, n - 1) \cup
         {Append(q, x) : q \in {t \in SeqsUpTo(S, n - 1) : Len(t) = n - 1}, x \in S}

\* mutant: the gate admits a unit whether or not a permit is left
semaphore_acquirable_always(value) == TRUE

\* mutant: the gate was created with two permits
semaphore_acquirable_two(value) == value > -1

\* asyncio.Semaphore: "async with semaphore" proceeds when a permit is left
semaphore_acquirable(value) == value > 0

\* process_one: the dict a unit returns; "async with semaphore" .. "try" ..
\* the branches on result.status, and "except Exception as e" when
\* process_payment raises.  Keys a branch leaves out are NoneId / "".
process_one_result(idx, p, r) ==
    LET payment_id == IF p.payment_id # "" THEN p.payment_id
                      ELSE "batch_" \o ToString(idx)
        entry == [payment_id |-> payment_id, status |-> r.result,
                  contact_id |-> NoneId, lead_id |-> NoneId, error |-> ""]
    IN  IF r.result = "raised"
        THEN [entry EXCEPT !.status = "error", !.error = r.exc]
        ELSE IF r.result = "success"
             THEN [entry EXCEPT !.contact_id = r.contact_id, !.lead_id = r.lead_id]
             ELSE entry

\* mutant: only 'success' and 'duplicate' are counted
summary_counter_no_failed(result_status) ==
    CASE result_status = "success" -> "succeeded"
      [] result_status = "duplicate" -> "duplicates"
      [] OTHER -> ""

\* the counter the summary loop increments for an entry's status
summary_counter(result_status) ==
    CASE result_status = "success" -> "succeeded"
      [] result_status = "duplicate" -> "duplicates"
      [] result_status = "skipped" -> "skipped"
      [] result_status \in {"error", "contact_not_found", "lead_not_found"} -> "failed"
      [] OTHER -> ""

\* the value of a counter after the loop over all_results
Counted(all_results, counter) ==
    Cardinality({i \in DOMAIN all_results :
                    summary_counter(all_results[i].status) = counter})

\* the dict process_payment_batch_parallel returns
BatchSummary(payments, all_results) ==
    [status |-> IF payments = <<>> THEN "success" ELSE "completed",
     total |-> Len(payments),
     succeeded |-> Counted(all_results, "succeeded"),
     failed |-> Counted(all_results, "failed"),
     duplicates |-> Counted(all_results, "duplicates"),
     skipped |-> Counted(all_results, "skipped"),
     results |-> all_results]

InitBatch ==
    /\ InitEngine
    /\ RetryIdle
    /\ fn = FnIdle
    /\ http = [c \in Calls |-> NoRequest]
    /\ batch \in {[NoBatch EXCEPT !.pc = "called", !.payments = ps] :
                     ps \in SeqsUpTo(BatchPayments, MaxCalls)}

\* "if not payments: return {...}", else semaphore = Semaphore(1) and the
\* tasks of asyncio.gather are created
BatchEnter ==
    /\ batch.pc = "called"
    /\ batch' = IF batch.payments = <<>>
                THEN [batch EXCEPT !.pc = "returned",
                                   !.summary = BatchSummary(<<>>, <<>>)]
                ELSE [batch EXCEPT !.pc = "gather", !.semaphore = 1,
                                   !.unit = [i \in DOMAIN batch.payments |-> "waiting"]]
    /\ UNCHANGED <<engineVars, retryVars, fn, http>>

\* process_one: "async with semaphore" is entered and process_payment called
BatchAcquire(i) ==
    /\ batch.pc = "gather"
    /\ i \in DOMAIN batch.unit
    /\ batch.unit[i] = "waiting"
    /\ \A j \in 1..(i - 1) : batch.unit[j] # "waiting"
    /\ semaphore_acquirable(batch.semaphore)
    /\ batch' = [batch EXCEPT !.semaphore = @ - 1, !.unit[i] = "inside"]
    /\ call' = [call EXCEPT ![i] =
                   process_payment_entry(batch.payments[i],
                                         {d \in Calls : call[d].pc = "done"})]
    /\ UNCHANGED <<ledger, contacts, leads, clock, faults, retryVars, fn, http>>

\* process_one: process_payment has returned (or raised), the unit's dict is
\* built and the semaphore released
BatchRelease(i) ==
    /\ batch.pc = "gather"
    /\ i \in DOMAIN batch.unit
    /\ batch.unit[i] = "inside"
    /\ call[i].pc = "done"
    /\ batch' = [batch EXCEPT
                    !.semaphore = @ + 1, !.unit[i] = "done",
                    !.all_results = [k \in DOMAIN @ \cup {i} |->
                        IF k = i
                        THEN process_one_result(i, batch.payments[i], call[i])
                        ELSE @[k]]]
    /\ UNCHANGED <<engineVars, retryVars, fn, http>>

\* asyncio.gather has every unit's result; the counters and the summary
BatchGather ==
    /\ batch.pc = "gather"
    /\ \A i \in DOMAIN batch.unit : batch.unit[i] = "done"
    /\ batch' = [batch EXCEPT
                    !.pc = "returned",
                    !.summary = BatchSummary(batch.payments, batch.all_results)]
    /\ UNCHANGED <<engineVars, retryVars, fn, http>>

NextBatch ==
    \/ BatchEnter
    \/ \E i \in Calls : BatchAcquire(i)
    \/ \E c \in Calls : DedupCheck(c)
    \/ \E c \in Calls : FindContact(c)
    \/ \E c \in Calls : SearchLeads(c)
    \/ \E c \in Calls : VerifyLeads(c)
    \/ \E c \in Calls : CreateContact(c)
    \/ \E c \in Calls : CreateLead(c)
    \/ \E c \in Calls : UpdateLeadGet(c)
    \/ \E c \in Calls : UpdateLeadPatch(c)
    \/ \E c \in Calls : AddNote(c)
    \/ \E c \in Calls : CreateTaskGet(c)
    \/ \E c \in Calls : CreateTaskPost(c)
    \/ \E c \in Calls : LogSuccess(c)
    \/ \E c \in Calls : LogError(c)
    \/ \E i \in Calls : BatchRelease(i)
    \/ BatchGather

SpecBatch == InitBatch /\ [][NextBatch]_vars

\* ------------------------------------------------------------------------
\* receive_payment_webhook (app/api/webhook_payment.py)
\* ------------------------------------------------------------------------
\* Texts built by an f-string are pairs <<fixed text, interpolated value>>.

\* settings.WEBHOOK_SECRET
WEBHOOK_SECRET == "secret"

\* hmac.new(key, msg, sha256).hexdigest(): a hex text determined by the key
\* and the message (collisions are not modelled)
Hmac(key, body) == [key |-> key, msg |-> body.id, ascii |-> TRUE]

\* a header value with a byte above 0x7f, which the ASGI server hands over
\* decoded as latin-1
SignatureNonAscii == [key |-> "", msg |-> "", ascii |-> FALSE]

\* verify_hmac_signature: hmac.compare_digest(expected_signature, signature),
\* which raises TypeError for a str with non-ASCII characters
verify_hmac_signature(body, signature, secret) ==
    IF ~signature.ascii THEN "TypeError"
    ELSE IF signature = Hmac(secret, body) THEN "valid"
    ELSE "invalid"

\* JSON documents: a payment with a payment_id, two payments without, and an
\* order without user data
DocOp ==
    [payment_id |-> "P1", phone |-> "ph1", email |-> "em1",
     source |-> <<"O", "p">>, cost |-> 100]
DocAnonA == [phone |-> "ph1", email |-> "em1", class |-> 9, cost |-> 400]
DocAnonB == [phone |-> "ph3", email |-> "em3", class |-> 9, cost |-> 500]
DocNoUser == [payment_id |-> "P9", cost |-> 100]

\* request bodies: the documents above as JSON text, and a text that is not
\* JSON
Bodies ==
    { [id |-> "b1", syntax |-> "json", doc |-> DocOp],
      [id |-> "b2", syntax |-> "json", doc |-> DocAnonA],
      [id |-> "b3", syntax |-> "json", doc |-> DocAnonB],
      [id |-> "b4", syntax |-> "json", doc |-> DocNoUser],
      [id |-> "b5", syntax |-> "garbage", doc |-> <<>>] }

\* the signatures a request for body b may carry: none, the right one, one
\* made with another key, the right one of another body, a non-ASCII text
Signatures(b) ==
    {NoSignature, Hmac(WEBHOOK_SECRET, b), Hmac("guess", b), SignatureNonAscii}
        \cup {Hmac(WEBHOOK_SECRET, o) : o \in Bodies \ {b}}

\* dict.get(key, default)
Get(doc, key, default) == IF key \in DOMAIN doc THEN doc[key] ELSE default

\* PaymentWebhook(**payload_dict): the fields declared Field(...) are
\* required, the others take their defaults; total_cost is the sum of the
\* item costs
PaymentWebhook(doc) ==
    [payment_id |-> Get(doc, "payment_id", ""),
     source |-> Get(doc, "source", <<>>),
     medium |-> Get(doc, "medium", <<>>),
     user_class |-> Get(doc, "class", NoneId),
     total_cost |-> doc.cost,
     user |-> [tg |-> Get(doc, "telegram_id", ""), phone |-> doc.phone,
               email |-> doc.email]]

\* json.loads(body.decode("utf-8")) and PaymentWebhook(**payload_dict): the
\* exception raised, "" when the payload is built
parse_error(body) ==
    IF body.syntax # "json" THEN "JSONDecodeError"
    ELSE IF ~({"phone", "email", "cost"} \subseteq DOMAIN body.doc)
         THEN "ValidationError"
         ELSE ""

\* the ProcessResult process_payment returns
process_result(r) ==
    [status |-> r.result,
     contact_id |-> IF r.result = "success" THEN r.contact_id ELSE NoneId,
     lead_id |-> IF r.result = "success" THEN r.lead_id ELSE NoneId,
     message |-> CASE r.result = "success" -> <<"processed successfully", r.payment_id>>
                   [] r.result = "duplicate" -> <<"already processed", r.payment_id>>
                   [] OTHER -> <<"Error processing payment: ", r.exc>>,
     error |-> IF r.result = "error" THEN r.exc ELSE ""]

\* mutant: every outcome but 'success' is answered with 500
http_status_code_flat(result_status) ==
    IF result_status = "success" THEN 200 ELSE 500

\* the status code of the branch receive_payment_webhook takes for
\* result.status
http_status_code(result_status) ==
    CASE result_status = "success" -> 200
      [] result_status = "duplicate" -> 409
      [] result_status = "contact_not_found" -> 404
      [] result_status = "lead_not_found" -> 404
      [] result_status = "skipped" -> 202
      [] OTHER -> 500

\* the response receive_payment_webhook builds from the ProcessResult: a
\* JSONResponse with content for 'success' and 'skipped', an HTTPException
\* with detail otherwise
http_response(result, payment_id) ==
    [status_code |-> http_status_code(result.status),
     detail |->
        IF result.status \in {"success", "skipped"} THEN NoDetail
        ELSE IF result.status \in {"duplicate", "contact_not_found", "lead_not_found"}
             THEN result.message
             ELSE IF result.error # "" THEN <<result.error, "">>
                  ELSE <<"Internal server error", "">>,
     content |->
        IF result.status = "success"
        THEN [status |-> "success", message |-> result.message,
              payment_id |-> payment_id, contact_id |-> result.contact_id,
              lead_id |-> result.lead_id]
        ELSE IF result.status = "skipped"
             THEN [NoContent EXCEPT !.status = "skipped",
                                    !.message = result.message,
                                    !.payment_id = payment_id]
             ELSE NoContent]

\* the CRM states the endpoint is run against: empty, and a worked deal of
\* the payer
WebhookWorlds ==
    { [contacts |-> <<>>, leads |-> <<>>],
      [contacts |-> <<ContactKnown>>,
       leads |-> <<Deal(NamePaymentEge, AMO_PIPELINE_SITE, STATUS_IN_WORK)>>] }

InitWebhook ==
    /\ ledger = <<>>
    /\ \E w \in WebhookWorlds : contacts = w.contacts /\ leads = w.leads
    /\ clock = 1
    /\ faults = MaxFaults
    /\ call = [c \in Calls |-> IdleCall]
    /\ RetryIdle
    /\ OuterIdle

\* receive_payment_webhook up to "result = await processor.process_payment":
\* the signature checks, the parsing, and the entry into the engine.  A
\* TypeError of the comparison is not caught and becomes the framework's 500.
Receive(c) ==
    /\ http[c].pc = "none"
    /\ \A d \in Calls : d < c => http[d].pc # "none"
    /\ \E body \in Bodies : \E signature \in Signatures(body) :
         LET h == [http[c] EXCEPT !.signature = signature, !.body = body]
             verdict == verify_hmac_signature(body, signature, WEBHOOK_SECRET)
             rejected(code, detail) ==
                [h EXCEPT !.pc = "responded", !.status_code = code,
                          !.detail = detail]
         IN  IF signature = NoSignature
             THEN /\ http' = [http EXCEPT ![c] =
                        rejected(401, <<"Missing X-WEBHOOK-SECRET header", "">>)]
                  /\ call' = call
             ELSE IF verdict = "TypeError"
             THEN /\ http' = [http EXCEPT ![c] =
                        rejected(500, <<"Internal Server Error", "">>)]
                  /\ call' = call
             ELSE IF verdict # "valid"
             THEN /\ http' = [http EXCEPT ![c] =
                        rejected(401, <<"Invalid HMAC signature", "">>)]
                  /\ call' = call
             ELSE IF parse_error(body) = "JSONDecodeError"
             THEN /\ http' = [http EXCEPT ![c] =
                        rejected(400, <<"Invalid JSON: ", "JSONDecodeError">>)]
                  /\ call' = call
             ELSE IF parse_error(body) # ""
             THEN /\ http' = [http EXCEPT ![c] =
                        [rejected(400, <<"Validation error: ", parse_error(body)>>)
                            EXCEPT !.parsed = TRUE]]
                  /\ call' = call
             ELSE /\ http' = [http EXCEPT ![c] =
                        [h EXCEPT !.pc = "processing", !.parsed = TRUE]]
                  /\ call' = [call EXCEPT ![c] =
                        process_payment_entry(PaymentWebhook(body.doc),
                            {d \in Calls : call[d].pc = "done"})]
    /\ UNCHANGED <<ledger, contacts, leads, clock, faults, retryVars, fn, batch>>

\* receive_payment_webhook after process_payment has returned
Respond(c) ==
    /\ http[c].pc = "processing"
    /\ call[c].pc = "done"
    /\ LET response == http_response(process_result(call[c]), call[c].payment_id)
       IN  http' = [http EXCEPT ![c] =
                      [@ EXCEPT !.pc = "responded",
                                !.status_code = response.status_code,
                                !.detail = response.detail,
                                !.content = response.content]]
    /\ UNCHANGED <<engineVars, retryVars, fn, batch>>

NextWebhook ==
    \/ \E c \in Calls : Receive(c)
    \/ \E c \in Calls : DedupCheck(c)
    \/ \E c \in Calls : FindContact(c)
    \/ \E c \in Calls : SearchLeads(c)
    \/ \E c \in Calls : VerifyLeads(c)
    \/ \E c \in Calls : CreateContact(c)
    \/ \E c \in Calls : CreateLead(c)
    \/ \E c \in Calls : UpdateLeadGet(c)
    \/ \E c \in Calls : UpdateLeadPatch(c)
    \/ \E c \in Calls : AddNote(c)
    \/ \E c \in Calls : CreateTaskGet(c)
    \/ \E c \in Calls : CreateTaskPost(c)
    \/ \E c \in Calls : LogSuccess(c)
    \/ \E c \in Calls : LogError(c)
    \/ \E c \in Calls : Respond(c)

SpecWebhook == InitWebhook /\ [][NextWebhook]_vars

\* ------------------------------------------------------------------------
\* The outcome-to-response mapping applied to every ProcessResult
\* ------------------------------------------------------------------------

\* ProcessResult.status: the six documented values and any other text
ResultStatuses ==
    {"success", "duplicate", "contact_not_found", "lead_not_found", "skipped",
     "error", "partial"}

ProcessResults ==
    [status : ResultStatuses, contact_id : {NoneId, 1}, lead_id : {NoneId, 1},
     message : {<<"message", "">>}, error : {"", "boom"}]

InitRespond ==
    /\ EngineAtRest
    /\ RetryIdle
    /\ http = [c \in Calls |-> NoRequest]
    /\ batch = NoBatch
    /\ fn \in {[FnIdle EXCEPT !.op = "http_response",
                              !.args = [result |-> res, payment_id |-> pid]] :
                  res \in ProcessResults, pid \in {"P1", "unknown"}}

\* the code of receive_payment_webhook that follows process_payment
RespondTo ==
    /\ fn.op = "http_response"
    /\ ~fn.returned
    /\ fn' = [fn EXCEPT !.ret = http_response(fn.args.result, fn.args.payment_id),
                        !.returned = TRUE]
    /\ UNCHANGED <<engineVars, retryVars, http, batch>>

NextRespond == RespondTo

SpecRespond == InitRespond /\ [][NextRespond]_vars

\* ------------------------------------------------------------------------
\* find_contact applied to every payer, CRM and set of failing searches
\* ------------------------------------------------------------------------

\* the keys find_contact is called with, "" for an absent one
LookupUsers == [tg : {"", "tg1"}, phone : {"", "ph1"}, email : {"", "em1", "em2"}]

\* CRM contact tables: empty; one contact with the phone and the email; the
\* three keys on three contacts so that every tier answers differently and
\* the phone query returns two contacts; the e-mails on two contacts
LookupTables ==
    { <<>>,
      <<ContactKnown>>,
      << [keys |-> {"em1"}, created_by |-> 0],
         [keys |-> {"ph1"}, created_by |-> 0],
         [keys |-> {"tg1", "ph1"}, created_by |-> 0] >>,
      << [keys |-> {"em2"}, created_by |-> 0],
         [keys |-> {"em1", "ph1"}, created_by |-> 0] >> }

InitFindContact ==
    /\ EngineAtRest
    /\ RetryIdle
    /\ http = [c \in Calls |-> NoRequest]
    /\ batch = NoBatch
    /\ fn \in {[FnIdle EXCEPT !.op = "find_contact",
                              !.args = [cs |-> cs, user |-> user, failT |-> failT]] :
                  cs \in LookupTables, user \in LookupUsers,
                  failT \in SUBSET Range(Tiers)}

\* contact = await self.find_contact(tg_id, phone, email), the searches in
\* failT failing after their retries; tried lists the searches it ran
FindContactCall ==
    /\ fn.op = "find_contact"
    /\ ~fn.returned
    /\ fn' = [fn EXCEPT
                 !.ret = [contact |-> find_contact(fn.args.cs, fn.args.user,
                                                   fn.args.failT),
                          tried |-> TiersTried(fn.args.cs, fn.args.user,
                                               fn.args.failT)],
                 !.returned = TRUE]
    /\ UNCHANGED <<engineVars, retryVars, http, batch>>

NextFindContact == FindContactCall

SpecFindContact == InitFindContact /\ [][NextFindContact]_vars

\* ------------------------------------------------------------------------
\* AmoCRMClient.update_contact_fields, called twice on one contact
\* ------------------------------------------------------------------------
\* fn.ret holds the remote contact, the running call k, its position, the
\* values its GET read, and one entry per finished call: the contact when it
\* was entered, the PATCH body it sent (patched tells whether a PATCH was
\* sent at all), the contact when it returned, and whether it raised.

ContactFields == {"tg_id", "tg_username", "email"}

\* a value a manager typed into the CRM, and the values the calls are given
ContactFieldValues == {"", "x", "y"}

\* mutant: every given value is written, whatever the contact holds
update_data_overwrite(current, args) ==
    [f \in {g \in ContactFields : args[g] # ""} |-> args[f]]

\* update_contact_fields: update_data["custom_fields_values"], one entry per
\* field whose argument is given and whose current value is empty ("if tg_id
\* and not current_tg_id", ...)
update_data(current, args) ==
    [f \in {g \in ContactFields : args[g] # "" /\ current[g] = ""} |-> args[f]]

\* PATCH /api/v4/contacts/{id}: the fields of the body replace the contact's
patch_contact(remote, data) ==
    [f \in ContactFields |-> IF f \in DOMAIN data THEN data[f] ELSE remote[f]]

InitContactFields ==
    /\ EngineAtRest
    /\ RetryIdle
    /\ http = [c \in Calls |-> NoRequest]
    /\ batch = NoBatch
    /\ fn \in {[FnIdle EXCEPT
                  !.op = "update_contact_fields",
                  !.args = <<a1, a2>>,
                  !.ret = [remote |-> remote, k |-> 1, pc |-> "get",
                           current |-> remote, hist |-> <<>>]] :
               a1 \in [ContactFields -> ContactFieldValues],
               a2 \in [ContactFields -> ContactFieldValues],
               remote \in [ContactFields -> {"", "h"}]}

\* the entry of fn.ret.hist for the running call
ContactCallEntry(data, patched, after, raised) ==
    [before |-> fn.ret.current, args |-> fn.args[fn.ret.k], data |-> data,
     patched |-> patched, after |-> after, raised |-> raised]

\* the running call is over: the next call starts, or both have returned
ContactCallOver(entry, remote) ==
    fn' = [fn EXCEPT !.ret = [@ EXCEPT !.remote = remote, !.k = @ + 1,
                                       !.pc = "get", !.hist = Append(@, entry)],
                     !.returned = fn.ret.k = Len(fn.args)]

\* response = await self._make_request("GET", f"/api/v4/contacts/{contact_id}")
\* and the construction of update_data; no PATCH when it is empty
UpdateContactGet ==
    /\ fn.op = "update_contact_fields"
    /\ ~fn.returned
    /\ fn.ret.pc = "get"
    /\ \E res \in Outcomes :
         /\ Spend(res)
         /\ IF res # "ok"
            THEN ContactCallOver(
                     [ContactCallEntry(<<>>, FALSE, fn.ret.remote, TRUE)
                         EXCEPT !.before = fn.ret.remote],
                     fn.ret.remote)
            ELSE IF DOMAIN update_data(fn.ret.remote, fn.args[fn.ret.k]) = {}
                 THEN ContactCallOver(
                          [ContactCallEntry(<<>>, FALSE, fn.ret.remote, FALSE)
                              EXCEPT !.before = fn.ret.remote],
                          fn.ret.remote)
                 ELSE fn' = [fn EXCEPT !.ret.current = fn.ret.remote,
                                       !.ret.pc = "patch"]
    /\ UNCHANGED <<ledger, contacts, leads, clock, call, retryVars, http, batch>>

\* await self._make_request("PATCH", f"/api/v4/contacts/{contact_id}",
\* data=update_data); a failure is logged and re-raised
UpdateContactPatch ==
    /\ fn.op = "update_contact_fields"
    /\ ~fn.returned
    /\ fn.ret.pc = "patch"
    /\ \E res \in Outcomes :
         LET data == update_data(fn.ret.current, fn.args[fn.ret.k])
             after == IF res = "ok" THEN patch_contact(fn.ret.remote, data)
                      ELSE fn.ret.remote
         IN  /\ Spend(res)
             /\ ContactCallOver(ContactCallEntry(data, TRUE, after, res # "ok"),
                                after)
    /\ UNCHANGED <<ledger, contacts, leads, clock, call, retryVars, http, batch>>

NextContactFields == UpdateContactGet \/ UpdateContactPatch

SpecContactFields == InitContactFields /\ [][NextContactFields]_vars

\* ------------------------------------------------------------------------
\* Direction of the course (PaymentProcessor._update_lead_fields)
\* ------------------------------------------------------------------------
\* A course name is a sequence of words, transliterated; lower() acts word
\* by word and "in" is the search for a run of words.

\* enum ids of the direction field (deployment configuration; distinct
\* symbolic values)
AMO_DIRECTION_OGE == 601
AMO_DIRECTION_EGE == 602
AMO_DIRECTION_CLASS_7 == 607
AMO_DIRECTION_CLASS_8 == 608
AMO_DIRECTION_CLASS_9 == 609
AMO_DIRECTION_CLASS_10 == 610
AMO_DIRECTION_CLASS_11 == 611
AMO_DIRECTION_OLD_CLASS_9 == 619
AMO_DIRECTION_OLD_CLASS_10 == 620
AMO_DIRECTION_OLD_CLASS_11 == 621

\* get_direction_enum_id_by_class: class_to_direction.get(user_class)
get_direction_enum_id_by_class(user_class) ==
    CASE user_class = 7 -> AMO_DIRECTION_CLASS_7
      [] user_class = 8 -> AMO_DIRECTION_CLASS_8
      [] user_class = 9 -> AMO_DIRECTION_CLASS_9
      [] user_class = 10 -> AMO_DIRECTION_CLASS_10
      [] user_class = 11 -> AMO_DIRECTION_CLASS_11
      [] OTHER -> NoneId

\* get_direction_enum_id_by_course_name: the spring-course formats, the
\* mathematics courses, then the formats of every other course
get_direction_enum_id_by_course_name(course_name) ==
    LET course_lower == Lower(course_name)
        has(words) == Contains(words, course_lower)
        spring == has(<<"vesenniy", "kurs">>)
    IN  IF spring /\ has(<<"11", "klass">>) THEN AMO_DIRECTION_CLASS_11
        ELSE IF spring /\ has(<<"10", "klass">>) THEN AMO_DIRECTION_CLASS_10
        ELSE IF spring /\ has(<<"9", "klass">>) THEN AMO_DIRECTION_CLASS_9
        ELSE IF has(<<"matematika", "8", "klass">>) THEN AMO_DIRECTION_CLASS_8
        ELSE IF has(<<"matematika", "7", "klass">>) THEN AMO_DIRECTION_CLASS_7
        ELSE IF spring THEN NoneId
        ELSE IF has(<<"11", "klass">>) THEN AMO_DIRECTION_OLD_CLASS_11
        ELSE IF has(<<"10", "klass">>) THEN AMO_DIRECTION_OLD_CLASS_10
        ELSE IF has(<<"9", "klass">>) \/ has(<<"oge">>) THEN AMO_DIRECTION_OLD_CLASS_9
        ELSE IF has(<<"8", "klass">>) THEN AMO_DIRECTION_CLASS_8
        ELSE IF has(<<"7", "klass">>) THEN AMO_DIRECTION_CLASS_7
        ELSE NoneId

\* _update_lead_fields, "direction_enum_id": the loop over the items with
\* cost > 0 stops at the first one whose name yields a direction; then the
\* class; then the loop over all items stops at the first project that is
\* "OGE" or "EGE"; then AMO_DIRECTION_EGE
direction_enum_id(items, user_class) ==
    LET named == {i \in DOMAIN items :
                     /\ items[i].cost > 0
                     /\ get_direction_enum_id_by_course_name(items[i].name) # NoneId}
        by_class == IF user_class # NoneId
                    THEN get_direction_enum_id_by_class(user_class) ELSE NoneId
        labelled == {i \in DOMAIN items : items[i].project \in {"OGE", "EGE"}}
    IN  IF named # {}
        THEN get_direction_enum_id_by_course_name(items[Min(named)].name)
        ELSE IF by_class # NoneId THEN by_class
        ELSE IF labelled # {}
        THEN IF items[Min(labelled)].project = "OGE"
             THEN AMO_DIRECTION_OGE ELSE AMO_DIRECTION_EGE
        ELSE AMO_DIRECTION_EGE

\* course names: a spring course of the 11th grade, a spring course without
\* a grade, mathematics of the 8th grade, a course named after the OGE, a
\* 10th-grade course, and a name no pattern matches
CourseNames ==
    { <<"Vesenniy", "kurs", "11", "klass">>, <<"vesenniy", "kurs">>,
      <<"matematika", "8", "klass">>, <<"kurs", "OGE">>, <<"10", "klass">>,
      <<"intensiv">> }

\* course_order_items entries: cost, course.name, course.subject.project
OrderItems == [cost : {0, 100}, name : CourseNames, project : {"OGE", "EGE", "Olimpiady"}]

\* the longest list of order items
MaxItems == 2

InitDirection ==
    /\ EngineAtRest
    /\ RetryIdle
    /\ http = [c \in Calls |-> NoRequest]
    /\ batch = NoBatch
    /\ fn \in {[FnIdle EXCEPT !.op = "direction_enum_id",
                              !.args = [items |-> items, user_class |-> g]] :
                  items \in SeqsUpTo(OrderItems, MaxItems),
                  g \in {NoneId, 5, 8, 9, 11}}

\* the part of _update_lead_fields that determines direction_enum_id
InferDirection ==
    /\ fn.op = "direction_enum_id"
    /\ ~fn.returned
    /\ fn' = [fn EXCEPT !.ret = direction_enum_id(fn.args.items, fn.args.user_class),
                        !.returned = TRUE]
    /\ UNCHANGED <<engineVars, retryVars, http, batch>>

NextDirection == InferDirection

SpecDirection == InitDirection /\ [][NextDirection]_vars

\* ------------------------------------------------------------------------
\* process_payment against a gateway whose find_op_lead returns any deal
\* ------------------------------------------------------------------------
\* PaymentProcessor takes its client as a constructor argument.  Here
\* find_op_lead is a stand-in that may return any deal of the CRM, verified
\* or not, so that the code of process_payment after the search is run on
\* candidates the real find_op_lead never returns.

\* CRM states with deals that have no linked contact: worked, in an
\* untouched stage, and next to a deal of the payer
StubWorlds ==
    { [contacts |-> <<ContactKnown>>,
       leads |-> <<[Deal(NamePaymentEge, AMO_PIPELINE_SITE, STATUS_IN_WORK)
                       EXCEPT !.contacts = <<>>]>>],
      [contacts |-> <<ContactKnown>>,
       leads |-> <<[Deal(NamePaymentEge, AMO_PIPELINE_SITE, 41044773)
                       EXCEPT !.contacts = <<>>]>>],
      [contacts |-> <<ContactKnown>>,
       leads |-> <<[Deal(NamePaymentEge, AMO_PIPELINE_SITE, STATUS_IN_WORK)
                       EXCEPT !.contacts = <<>>],
                   Deal(NamePaymentEge, AMO_PIPELINE_SITE, STATUS_IN_WORK)>>] }

InitStub ==
    /\ ledger = <<>>
    /\ \E w \in StubWorlds : contacts = w.contacts /\ leads = w.leads
    /\ clock = 1
    /\ faults = MaxFaults
    /\ call = [c \in Calls |-> IdleCall]
    /\ RetryIdle
    /\ OuterIdle

\* existing_lead = await self.client.find_op_lead(...) with the stand-in:
\* no deal, or any deal of the CRM as GET /leads/{id}?with=contacts shows it
FindOpLeadStub(c) ==
    /\ call[c].pc = "find_contact"
    /\ \E lead \in {NoLead} \cup {LeadSnapshot(leads, id) : id \in DOMAIN leads} :
         call' = [call EXCEPT ![c] = AfterFind(Crm(call[c]), lead)]
    /\ UNCHANGED <<ledger, contacts, leads, clock, faults, retryVars, outerVars>>

NextStub ==
    \/ \E c \in Calls : Start(c)
    \/ \E c \in Calls : DedupCheck(c)
    \/ \E c \in Calls : FindOpLeadStub(c)
    \/ \E c \in Calls : CreateContact(c)
    \/ \E c \in Calls : CreateLead(c)
    \/ \E c \in Calls : UpdateLeadGet(c)
    \/ \E c \in Calls : UpdateLeadPatch(c)
    \/ \E c \in Calls : AddNote(c)
    \/ \E c \in Calls : CreateTaskGet(c)
    \/ \E c \in Calls : CreateTaskPost(c)
    \/ \E c \in Calls : LogSuccess(c)
    \/ \E c \in Calls : LogError(c)

SpecStub == InitStub /\ [][NextStub]_vars

\* ------------------------------------------------------------------------
\* The engine on a CRM where an untouched deal hides other deals
\* ------------------------------------------------------------------------

\* the payer's most recent "Oplata: EGE" deal is in an untouched stage; he
\* also has an older worked deal of that name and a worked deal in a
\* pipeline only the broad search covers
OverrideWorlds ==
    { [contacts |-> <<ContactKnown>>,
       leads |-> << Deal(NamePaymentEge, AMO_PIPELINE_SITE, 41044773),
                    [Deal(NamePaymentEge, AMO_PIPELINE_SITE, STATUS_IN_WORK)
                        EXCEPT !.updated_at = 0],
                    [Deal(NameOther, PIPELINE_SITE_TG, STATUS_IN_WORK)
                        EXCEPT !.updated_at = 0] >>],
      [contacts |-> <<ContactKnown>>,
       leads |-> << Deal(NamePaymentEge, AMO_PIPELINE_SITE, 41044773),
                    [Deal(NameOther, PIPELINE_SITE_TG, STATUS_IN_WORK)
                        EXCEPT !.updated_at = 0] >>] }

InitOverride ==
    /\ ledger = <<>>
    /\ \E w \in OverrideWorlds : contacts = w.contacts /\ leads = w.leads
    /\ clock = 1
    /\ faults = MaxFaults
    /\ call = [c \in Calls |-> IdleCall]
    /\ RetryIdle
    /\ OuterIdle

SpecOverride == InitOverride /\ [][Next]_vars

\* ------------------------------------------------------------------------
\* EventLogger.cleanup_old_records (app/db/event_logger.py), run by
\* scripts/cleanup_db.py against the table the service writes
\* ------------------------------------------------------------------------
\* created_at and 'now' are timestamps with a resolution of one second;
\* time is counted in seconds, with a day scaled down to SecondsPerDay.
SecondsPerDay == 2
\* the time at which the run starts, and how many seconds may pass in it
CleanupStart == 3
MaxTicks == 2
\* the days argument of the call
CleanupDays == {0, 1}

\* created_at of row i of the table: fn.ret.created_at holds the stamps of
\* the rows written before the last tick of the clock, a row written since
\* carries the current time (timestamp = datetime.now(UTC) in log_payment)
CreatedAt(i) ==
    IF i \in DOMAIN fn.ret.created_at THEN fn.ret.created_at[i]
    ELSE fn.ret.now

\* WHERE datetime(created_at) < datetime('now', '-<days> days'), evaluated
\* by the statement that runs at time now
OlderThan(days, now) ==
    {i \in DOMAIN ledger : CreatedAt(i) < now - days * SecondsPerDay}

RECURSIVE Remaining(_, _)
\* the rows of table q that a DELETE of the rows at the indices drop leaves
Remaining(q, drop) ==
    IF q = <<>> THEN <<>>
    ELSE LET n == Len(q)
             rest == Remaining(SubSeq(q, 1, n - 1), drop)
         IN  IF n \in drop THEN rest ELSE Append(rest, q[n])

\* a row the service recorded for payment p before the run
RecordedRow(p) ==
    LedgerRow(p.payment_id, p.total_cost, "success", 1, 1,
              AMO_PIPELINE_SITE, STATUS_IN_WORK, FALSE, "")

\* the cleanup call before its first statement
CleanupCall(days, stamps) ==
    [FnIdle EXCEPT
        !.op = "cleanup_old_records",
        !.args = <<days>>,
        !.ret = [pc |-> "count", now |-> CleanupStart, created_at |-> stamps,
                 count_before |-> 0, raised |-> FALSE, value |-> NoneId,
                 before |-> <<>>, stamps |-> <<>>, after |-> <<>>, at |-> 0,
                 entered |-> {}]]

InitCleanup ==
    /\ ledger \in {<<RecordedRow(PayOp)>>, <<RecordedRow(PayOp), RecordedRow(PaySite)>>}
    /\ contacts = <<ContactKnown>>
    /\ leads = <<Deal(NamePaymentEge, AMO_PIPELINE_SITE, STATUS_IN_WORK)>>
    /\ clock = 1
    /\ faults = 1
    /\ call = [c \in Calls |-> IdleCall]
    /\ RetryIdle
    /\ http = [c \in Calls |-> NoRequest]
    /\ batch = NoBatch
    /\ fn \in {CleanupCall(days, stamps) :
                  days \in CleanupDays,
                  stamps \in [DOMAIN ledger -> 0..CleanupStart]}

\* a second passes
CleanupTick ==
    /\ fn.op = "cleanup_old_records"
    /\ fn.ret.now < CleanupStart + MaxTicks
    /\ fn' = [fn EXCEPT !.ret.created_at = [i \in DOMAIN ledger |-> CreatedAt(i)],
                        !.ret.now = @ + 1]
    /\ UNCHANGED <<engineVars, retryVars, http, batch>>

\* SELECT COUNT(*) FROM payment_events WHERE ...; count_before = row[0];
\* "except Exception: raise" when the statement fails
CleanupCount ==
    /\ fn.op = "cleanup_old_records"
    /\ fn.ret.pc = "count"
    /\ \E dbOk \in {b \in BOOLEAN : ~b => faults > 0} :
         /\ faults' = IF dbOk THEN faults ELSE faults - 1
         /\ fn' = IF dbOk
                  THEN [fn EXCEPT
                          !.ret.count_before =
                              Cardinality(OlderThan(fn.args[1], fn.ret.now)),
                          !.ret.pc = "delete"]
                  ELSE [fn EXCEPT !.ret.raised = TRUE, !.ret.pc = "done",
                                  !.returned = TRUE]
    /\ UNCHANGED <<ledger, contacts, leads, clock, call, retryVars, http, batch>>

\* DELETE FROM payment_events WHERE ...; await db.commit();
\* return count_before; "except Exception: raise" leaves the table as it is
CleanupDelete ==
    /\ fn.op = "cleanup_old_records"
    /\ fn.ret.pc = "delete"
    /\ \E dbOk \in {b \in BOOLEAN : ~b => faults > 0} :
         LET old == OlderThan(fn.args[1], fn.ret.now)
             stamps == [i \in DOMAIN ledger |-> CreatedAt(i)]
             over == [fn.ret EXCEPT
                        !.pc = "done", !.before = ledger, !.stamps = stamps,
                        !.at = fn.ret.now,
                        !.entered = {c \in Calls : call[c].checked}]
         IN  /\ faults' = IF dbOk THEN faults ELSE faults - 1
             /\ ledger' = IF dbOk THEN Remaining(ledger, old) ELSE ledger
             /\ fn' = IF dbOk
                      THEN [fn EXCEPT
                              !.ret = [over EXCEPT
                                         !.value = fn.ret.count_before,
                                         !.after = Remaining(ledger, old),
                                         !.created_at = Remaining(stamps, old)],
                              !.returned = TRUE]
                      ELSE [fn EXCEPT
                              !.ret = [over EXCEPT !.raised = TRUE,
                                                   !.after = ledger],
                              !.returned = TRUE]
    /\ UNCHANGED <<contacts, leads, clock, call, retryVars, http, batch>>

\* the service receives a payment whose id was recorded before the run
CleanupSubmit ==
    /\ call[1].pc = "idle"
    /\ \E p \in {PayOp, PaySite} :
         call' = [call EXCEPT ![1] = process_payment_entry(p, {})]
    /\ UNCHANGED <<ledger, contacts, leads, clock, faults, retryVars, outerVars>>

NextCleanup ==
    \/ CleanupTick
    \/ CleanupCount
    \/ CleanupDelete
    \/ CleanupSubmit
    \/ \E c \in Calls : DedupCheck(c)
    \/ \E c \in Calls : FindContact(c)
    \/ \E c \in Calls : SearchLeads(c)
    \/ \E c \in Calls : VerifyLeads(c)
    \/ \E c \in Calls : UpdateLeadGet(c)
    \/ \E c \in Calls : UpdateLeadPatch(c)
    \/ \E c \in Calls : AddNote(c)
    \/ \E c \in Calls : CreateTaskGet(c)
    \/ \E c \in Calls : CreateTaskPost(c)
    \/ \E c \in Calls : LogSuccess(c)
    \/ \E c \in Calls : LogError(c)

SpecCleanup == InitCleanup /\ [][NextCleanup]_vars

TypeOK ==
    /\ \A c \in Calls : call[c].pc \in
         {"idle", "dedup", "find_contact", "search_leads", "verify_leads",
          "create_contact", "create_lead", "upd_get", "upd_patch", "add_note",
          "task_get", "task_post", "log_success", "log_error", "done"}
    /\ \A c \in Calls : call[c].pc = "done" <=> call[c].result # ""
    /\ faults \in 0..MaxFaults

\* ------------------------------------------------------------------------
\* Properties
\* ------------------------------------------------------------------------

Done(c) == call[c].pc = "done"

Rows(pid) == RowsFor(ledger, pid)

PaymentIds == {p.payment_id : p \in Payments}

\* gateway operations whose failure process_payment does not swallow
CoreSteps == {"create_contact", "create_lead", "update_lead_fields", "add_lead_note"}

\* the deals created by create_lead for a payment_id
CreatedFor(pid) == {id \in DOMAIN leads : leads[id].created_for = pid}

SequentialPair(c1, c2) ==
    /\ c1 # c2
    /\ Done(c1) /\ Done(c2)
    /\ c1 \in call[c2].startedAfter
    /\ call[c1].payment_id = call[c2].payment_id
    /\ \A d \in Calls \ {c1, c2} : call[d].payment_id # call[c1].payment_id

C3_UniqueRows ==
    /\ [](\A pid \in PaymentIds : Cardinality(Rows(pid)) <= 1)
    /\ [][\A c \in Calls :
            (/\ Len(call'[c].log) = Len(call[c].log) + 1
             /\ Rows(call[c].payment_id) # {}) =>
                /\ ledger' = ledger
                /\ call'[c].log[Len(call'[c].log)] # "ok"]_vars

C3_Witness ==
    \E c \in Calls : "IntegrityError" \in Range(call[c].log)

\* C4 as stated: at most one deal is ever created for a payment_id, under
\* every interleaving.
C4_Original ==
    \A pid \in PaymentIds : Cardinality(CreatedFor(pid)) <= 1

\* C4 amended: a call creates a deal only if its own dedup check found no
\* ledger row for the payment_id, and it creates at most one; so at most one
\* deal is created per payment_id among calls that each start after the
\* previous call's ledger row was written, while calls that pass the dedup
\* check before any row is written (concurrent calls) each create a deal.
C4_Amended ==
    /\ \A c \in Calls :
          call[c].rowAtCheck => call[c].path = "" /\ call[c].lead_id = NoneId
    /\ \A id \in DOMAIN leads :
          leads[id].created_for # "" =>
              \E c \in Calls :
                  /\ call[c].lead_id = id
                  /\ call[c].path = "new"
                  /\ call[c].payment_id = leads[id].created_for
                  /\ call[c].checked /\ ~call[c].rowAtCheck
    /\ \A pid \in PaymentIds :
          Cardinality(CreatedFor(pid)) <=
              Cardinality({c \in Calls : /\ call[c].payment_id = pid
                                         /\ call[c].checked
                                         /\ ~call[c].rowAtCheck})

C4_Witness ==
    \E c1, c2 \in Calls :
        /\ call[c1].payment_id = call[c2].payment_id
        /\ call[c1].path = "new" /\ call[c1].result = "success"
        /\ call[c2].rowAtCheck /\ call[c2].result = "duplicate"
        /\ Cardinality(CreatedFor(call[c1].payment_id)) = 1

\* C5: the call whose success insert is rejected by the uniqueness
\* constraint (the loser of a race on a never-before-seen payment_id) issues
\* no further gateway call, leaves exactly one row for the payment_id, and
\* does not report the payment as a processing error.
C5_RaceLoserNotError ==
    \A c \in Calls :
        call[c].exc = "UNIQUE constraint failed" =>
            /\ call[c].pc \in {"log_error", "done"}
            /\ Cardinality(Rows(call[c].payment_id)) = 1
            /\ (Done(c) => call[c].result # "error")

\* C6: a call issues gateway calls only after its ledger existence check and
\* before its first ledger write; every call that ends 'success' or 'error'
\* has attempted the ledger write, and at most one write of a call inserts.
C6_Ordering ==
    /\ [][\A c \in Calls :
            call'[c].crm > call[c].crm =>
                call[c].checked /\ call[c].log = <<>>]_vars
    /\ [](\A c \in Calls :
            /\ (call[c].log # <<>> \/ call[c].crm > 0) => call[c].checked
            /\ (Done(c) /\ call[c].result \in {"success", "error"}) =>
                   call[c].log # <<>>
            /\ Cardinality({i \in DOMAIN call[c].log : call[c].log[i] = "ok"}) <= 1)

C6_Witness ==
    \E c \in Calls :
        /\ call[c].result = "success"
        /\ call[c].crm > 0
        /\ call[c].log = <<"ok">>

\* C7: no call ends by raising: a call ends with 'success', 'duplicate' or
\* 'error', and every call in which an exception of a ledger or gateway
\* operation reached the handler ends with 'error', also when the ledger
\* write recording the error fails.
C7_NeverRaises ==
    \A c \in Calls :
        /\ call[c].result \in {"", "success", "duplicate", "error"}
        /\ (Done(c) /\ call[c].raised) => call[c].result = "error"

C7_Witness ==
    \E c \in Calls :
        /\ Done(c) /\ call[c].raised
        /\ call[c].failed \cap CoreSteps # {}
        /\ call[c].log = <<"Exception">>
        /\ call[c].result = "error"

\* the ledger holds exactly one row for the call's payment_id: status
\* 'error' with the call's failure message
OnlyErrorRow(c) ==
    \E i \in Rows(call[c].payment_id) :
        /\ Rows(call[c].payment_id) = {i}
        /\ ledger[i].status = "error"
        /\ ledger[i].last_error = call[c].exc

\* a step of the call failed after its dedup check had passed
FailedAfterDedup(c) ==
    Done(c) /\ call[c].raised /\ call[c].strategy # ""

\* C8 as stated: when a step fails after the dedup check passed and the
\* ledger is writable (no database operation of the call fails), the ledger
\* then holds exactly one row for the payment_id, status 'error' with the
\* failure message, and no 'success' row.
C8_Original ==
    \A c \in Calls :
        (FailedAfterDedup(c) /\ ~call[c].dbFault) => OnlyErrorRow(c)

\* C8 amended: ... the ledger is writable and no other call has recorded the
\* same payment_id in the meantime (the error insert does not hit the
\* uniqueness constraint) ...
C8_Amended ==
    \A c \in Calls :
        (/\ FailedAfterDedup(c)
         /\ ~call[c].dbFault
         /\ "IntegrityError" \notin Range(call[c].log)) => OnlyErrorRow(c)

C8_Witness ==
    \E c \in Calls :
        /\ FailedAfterDedup(c)
        /\ ~call[c].dbFault
        /\ call[c].log = <<"ok">>
        /\ OnlyErrorRow(c)

C10_RetryOnlyTransient ==
    \A i \in 1..reqAttempt :
        /\ i < reqAttempt => reqOutcomes[i] \in {"transport", "http429", "http5xx"}
        /\ reqOutcomes[i] = "http4xx" => reqAttempt = i /\ reqState = "raised"

\* the call's find_op_lead calls that have returned, and the last of them
Finds(c) == call[c].finds

LastFind(c) == call[c].finds[Len(call[c].finds)]

\* Phase 1 of the call is over: a path was chosen, or the found deal had no
\* contact
Phase1Over(c) == call[c].path # "" \/ call[c].exc = "Lead has no contacts"

\* the deal's (pipeline, stage) pair is in the untouched-stage table
Untouched(lead) ==
    lead.id # NoneId /\ lead.status_id \in UNPROCESSED_STATUSES(lead.pipeline_id)

\* Phase 1 of the call ended with a candidate in an untouched stage
FoundUntouched(c) == Finds(c) # <<>> /\ Phase1Over(c) /\ Untouched(LastFind(c).lead)

\* the Attribution Resolver's answer for the call's payment
Target(c) == determine_pipeline_and_status(call[c].payment, call[c].payment.user_class)

\* the ledger rows with status 'success' of the call's payment_id
SuccessRows(c) ==
    {ledger[i] : i \in {j \in Rows(call[c].payment_id) : ledger[j].status = "success"}}

\* C11: when the Phase 1 candidate is in an untouched stage the call takes
\* the new-deal path with the resolver's (pipeline, stage), as when nothing
\* is found: the deal it works on is not the candidate but one created for
\* this payment and linked to a contact created by this call, a 'success'
\* row says is_lead_created = 1, and no step of the call changes the
\* discarded deal.
C11_UntouchedOverride ==
    /\ [](\A c \in Calls :
            FoundUntouched(c) =>
                /\ call[c].path = "new"
                /\ call[c].lead_id # LastFind(c).lead.id
                /\ <<call[c].pipeline_id, call[c].status_id>> = Target(c)
                /\ call[c].lead_id # NoneId =>
                       /\ leads[call[c].lead_id].created_for = call[c].payment_id
                       /\ leads[call[c].lead_id].contacts = <<call[c].contact_id>>
                       /\ contacts[call[c].contact_id].created_by = c
                /\ call[c].result = "success" =>
                       \E row \in SuccessRows(c) :
                           /\ row.is_lead_created = 1
                           /\ row.lead_id = call[c].lead_id)
    /\ [][\A c \in Calls :
            (FoundUntouched(c) /\ call'[c] # call[c]) =>
                leads'[LastFind(c).lead.id] = leads[LastFind(c).lead.id]]_vars

C11_Witness ==
    \E c \in Calls :
        /\ FoundUntouched(c)
        /\ call[c].result = "success"
        /\ call[c].path = "new"
        /\ leads[LastFind(c).lead.id].notes = 0

\* the payment's attribution source equals "op" ignoring case
SourceIsOp(payment) == Lower(payment.source) = <<"o", "p">>

\* C12: in every execution that passed the dedup check the first search is
\* the narrow one (A) and it is always run; the broad search (B) is started
\* exactly when A has returned no deal and the payment's source is "op"
\* ignoring case, and nothing else is searched.
C12_StrategyOrder ==
    \A c \in Calls :
        LET f == Finds(c)
            runB == Len(f) >= 1 /\ f[1].lead.id = NoneId /\ SourceIsOp(call[c].payment)
        IN  /\ Len(f) <= 2
            /\ Len(f) >= 1 => f[1].strategy = "A"
            /\ Len(f) = 2 => f[2].strategy = "B"
            /\ call[c].strategy = "" => f = <<>>
            /\ call[c].strategy = "B" <=> runB
            /\ Phase1Over(c) => Len(f) >= 1 /\ (Len(f) = 2 <=> runB)
            /\ (Done(c) /\ call[c].strategy # "") => Len(f) >= 1

C12_Witness ==
    \E c \in Calls :
        /\ Phase1Over(c)
        /\ Len(Finds(c)) = 2
        /\ Finds(c)[2].lead.id # NoneId
        /\ call[c].payment.source = <<"O", "p">>

\* the deals among those the searches of the running find_op_lead returned
\* that list the resolved contact, are not deleted, are in an allowed
\* pipeline and outside the excluded stages of the strategy and, for the
\* narrow search, carry a canonical payment title; none when find_op_lead
\* has resolved no contact or its searches returned nothing
Eligible(c) ==
    IF call[c].pc # "verify_leads" THEN {}
    ELSE {id \in call[c].cands :
            /\ call[c].contact \in Range(leads[id].contacts)
            /\ ~leads[id].is_deleted
            /\ leads[id].pipeline_id \in AllowedPipelines(call[c].strategy)
            /\ leads[id].status_id \notin ExcludedStatuses(call[c].strategy)
            /\ (call[c].strategy = "A" => leads[id].name \in TargetNames)}

\* C13: a find_op_lead call all of whose reads succeeded returns a deal of
\* the eligible set with the greatest updated_at, and returns no deal
\* exactly when that set is empty.
C13_LatestEligible ==
    [][\A c \in Calls :
         (/\ Len(call'[c].finds) = Len(call[c].finds) + 1
          /\ call'[c].finds[Len(call'[c].finds)].clean) =>
             LET got == call'[c].finds[Len(call'[c].finds)].lead.id
             IN  /\ got = NoneId <=> Eligible(c) = {}
                 /\ got # NoneId =>
                       /\ got \in Eligible(c)
                       /\ \A o \in Eligible(c) :
                             leads[o].updated_at <= leads[got].updated_at]_vars

C13_Witness ==
    \E c \in Calls :
        /\ Finds(c) # <<>>
        /\ LastFind(c).clean
        /\ LastFind(c).lead.id = 1
        /\ LastFind(c).contact = 1
        /\ Len(leads) >= 4
        /\ leads[2].updated_at < leads[1].updated_at
        /\ leads[3].is_deleted

\* C14: on the existing-deal path the deal keeps the pipeline, the stage and
\* the attribution (utm_source stands for the six utm fields, which one
\* skip_utm switch governs) it had when Phase 1 returned it.
C14_FrameExisting ==
    \A c \in Calls :
        call[c].path = "existing" =>
            LET deal == leads[call[c].lead_id]
                before == LastFind(c).lead
            IN  /\ before.id = call[c].lead_id
                /\ deal.pipeline_id = before.pipeline_id
                /\ deal.status_id = before.status_id
                /\ deal.utm_source = before.utm_source

C14_Witness ==
    \E c \in Calls :
        /\ call[c].path = "existing"
        /\ call[c].result = "success"
        /\ call[c].payment.source = <<"O", "p">>
        /\ leads[call[c].lead_id].price = call[c].payment.total_cost
        /\ leads[call[c].lead_id].utm_source = <<"v", "k">>

\* the ledger row of the call's payment_id says 'success', not created, and
\* names the call's deal
UpdatedRow(c) ==
    \E row \in SuccessRows(c) :
        /\ row.is_lead_created = 0
        /\ row.lead_id = call[c].lead_id
        /\ row.contact_id = call[c].contact_id

\* C15: a call on the existing-deal path whose follow-up task creation
\* failed, after the deal update and the note succeeded, returns 'success'
\* and its ledger row has status 'success' and is_lead_created = 0 (the
\* ledger being writable and the payment_id not recorded by another call
\* in the meantime, as for any success).
C15_TaskFailureSwallowed ==
    \A c \in Calls :
        (/\ Done(c)
         /\ call[c].path = "existing"
         /\ "create_task" \in call[c].failed
         /\ call[c].failed \cap CoreSteps = {}
         /\ ~call[c].dbFault
         /\ "IntegrityError" \notin Range(call[c].log)) =>
            /\ call[c].result = "success"
            /\ UpdatedRow(c)
            /\ leads[call[c].lead_id].notes > 0

C15_Witness ==
    \E c \in Calls :
        /\ Done(c)
        /\ call[c].path = "existing"
        /\ "create_task" \in call[c].failed
        /\ call[c].result = "success"
        /\ UpdatedRow(c)
        /\ leads[call[c].lead_id].tasks = 0

\* the contacts a call has created
CreatedBy(c) == {k \in DOMAIN contacts : contacts[k].created_by = c}

\* C16: a call on the new-deal path creates exactly one contact (none
\* before its create_contact call has succeeded, and a call not on that
\* path creates none), never re-enters create_contact, and the deal it
\* creates exists only after that contact and is linked to it alone, so no
\* created deal is linked to a contact that existed before the payment.
C16_FreshContact ==
    /\ [](\A c \in Calls :
            /\ Cardinality(CreatedBy(c)) <= 1
            /\ call[c].path # "new" => CreatedBy(c) = {}
            /\ call[c].path = "new" =>
                  /\ CreatedBy(c) = {call[c].contact_id} \ {NoneId}
                  /\ call[c].pc \in {"create_lead", "upd_get", "upd_patch",
                                     "add_note", "log_success"} =>
                         call[c].contact_id # NoneId
                  /\ call[c].lead_id # NoneId =>
                         /\ call[c].contact_id # NoneId
                         /\ leads[call[c].lead_id].contacts = <<call[c].contact_id>>)
    /\ [](\A id \in DOMAIN leads :
            leads[id].created_for # "" =>
                \A k \in Range(leads[id].contacts) : contacts[k].created_by # 0)
    /\ [][\A c \in Calls :
            (call'[c].pc = "create_contact" /\ call[c].pc # "create_contact") =>
                /\ call[c].pc \in {"find_contact", "search_leads", "verify_leads"}
                /\ CreatedBy(c) = {}]_vars

C16_Witness ==
    \E c \in Calls :
        /\ call[c].path = "new"
        /\ call[c].result = "success"
        /\ contacts[1].created_by = 0
        /\ contacts[1].keys = {"ph1", "em1"}
        /\ call[c].contact_id > 1
        /\ leads[call[c].lead_id].contacts = <<call[c].contact_id>>

\* C17: the deal a call creates on the new-deal path is in the (pipeline,
\* stage) pair the Attribution Resolver gives for the payment's attribution
\* and grade and has the payment's total_cost as budget, and when the call
\* returns 'success' the ledger row of the payment says 'success',
\* is_lead_created = 1 and the same pipeline and stage.
C17_NewDealTarget ==
    \A c \in Calls :
        (call[c].path = "new" /\ call[c].lead_id # NoneId) =>
            LET deal == leads[call[c].lead_id]
            IN  /\ deal.pipeline_id = Target(c)[1]
                /\ deal.status_id = Target(c)[2]
                /\ deal.price = call[c].payment.total_cost
                /\ call[c].result = "success" =>
                      \E row \in SuccessRows(c) :
                          /\ row.is_lead_created = 1
                          /\ row.lead_id = call[c].lead_id
                          /\ row.pipeline_id = Target(c)[1]
                          /\ row.status_id = Target(c)[2]

C17_Witness ==
    \E c \in Calls :
        /\ call[c].path = "new"
        /\ call[c].result = "success"
        /\ call[c].payment.user_class = 7
        /\ leads[call[c].lead_id].pipeline_id = PIPELINE_7_8_CLASS
        /\ leads[call[c].lead_id].price = 300

\* c1 and then c2, one after the other, successfully applied payments with
\* different payment_ids to the same existing deal, and no other call
\* works on that deal
SequentialOnSameDeal(c1, c2) ==
    /\ c1 \in call[c2].startedAfter
    /\ call[c1].result = "success" /\ call[c2].result = "success"
    /\ call[c1].path = "existing" /\ call[c2].path = "existing"
    /\ call[c1].lead_id = call[c2].lead_id
    /\ call[c1].payment_id # call[c2].payment_id
    /\ \A d \in Calls \ {c1, c2} : call[d].lead_id # call[c1].lead_id

AppliedTwice(c1, c2) ==
    /\ c1 \in call[c2].startedAfter
    /\ call[c1].payment_id = call[c2].payment_id
    /\ call[c1].path = "existing" /\ call[c2].path = "existing"
    /\ call[c1].lead_id = call[c2].lead_id
    /\ call[c1].written # NoneId /\ call[c2].written # NoneId
    /\ \A d \in Calls \ {c1, c2} : call[d].lead_id # call[c1].lead_id

\* the number of purchases the deal's purchase-count field shows
CountOf(deal) == purchase_count_value(deal.purchase_count)

\* C19: the GET of update_lead_fields reads the deal's current purchase
\* count, the PATCH writes that value plus one when it is within 1..10 and
\* leaves the field alone otherwise, and after the same payment was applied
\* twice in a row to a deal its count is two above the one first read.
C19_PurchaseCount ==
    /\ [][\A c \in Calls :
            /\ (call[c].pc = "upd_get" /\ call'[c].pc = "upd_patch") =>
                  call'[c].cur_count = CountOf(leads[call[c].lead_id])
            /\ (call[c].pc = "upd_patch" /\ call'[c].pc = "add_note") =>
                  CountOf(leads'[call[c].lead_id]) =
                      IF call[c].cur_count + 1 \in 1..10
                      THEN call[c].cur_count + 1
                      ELSE CountOf(leads[call[c].lead_id])]_vars
    /\ [](\A c1, c2 \in Calls :
            AppliedTwice(c1, c2) =>
                CountOf(leads[call[c1].lead_id]) = call[c1].cur_count + 2)

C19_Witness ==
    \E c1, c2 \in Calls :
        /\ AppliedTwice(c1, c2)
        /\ call[c1].cur_count = 1
        /\ CountOf(leads[call[c1].lead_id]) = 3

\* the ledger row of the call's payment_id says 'success' with the call's
\* contact and deal
RecordedIds(c) ==
    \E row \in SuccessRows(c) :
        /\ row.contact_id = call[c].contact_id
        /\ row.lead_id = call[c].lead_id

\* C20: a call that ends 'success' returns and records a non-null contact
\* id and a non-null deal id, the deal is linked to the contact, and the
\* contact is the one the Phase 1 contact search matched (existing-deal
\* path) or the one this call created (new-deal path).
C20_OneContact ==
    \A c \in Calls :
        call[c].result = "success" =>
            /\ call[c].contact_id # NoneId
            /\ call[c].lead_id # NoneId
            /\ RecordedIds(c)
            /\ call[c].contact_id \in Range(leads[call[c].lead_id].contacts)
            /\ call[c].path = "existing" =>
                   call[c].contact_id = LastFind(c).contact
            /\ call[c].path = "new" =>
                   contacts[call[c].contact_id].created_by = c

\* determine_pipeline_and_status has returned for the drawn arguments
Resolved == fn.op = "determine_pipeline_and_status" /\ fn.returned

\* the configured tokens as the deployment means them (without the blanks
\* around the commas)
PartnerTokens == {<<"t", "b">>, <<"a", "d">>}
PaidTrafficTokens == {<<"c", "p">>}

\* some token occurs in the text as a substring, letter case ignored
HasToken(tokens, text) ==
    \E tok \in tokens : \E i \in 0..(Len(text) - Len(tok)) :
        \A j \in 1..Len(tok) : LowerChar(text[i + j]) = LowerChar(tok[j])

CohortPair == <<PIPELINE_7_8_CLASS, PIPELINE_7_8_CLASS_AUTOPAY>>
PartnersPair == <<AMO_PIPELINE_PARTNERS, AMO_STATUS_AUTOPAY_PARTNERS>>
PaidTrafficPair == <<AMO_PIPELINE_YANDEX, AMO_STATUS_AUTOPAY_YANDEX>>
DefaultPair == <<AMO_PIPELINE_SITE, AMO_STATUS_AUTOPAY_SITE>>

\* C21: for grade 7 or 8 determine_pipeline_and_status returns the
\* 7/8-cohort (pipeline, stage) pair whatever the attribution is.
C21_CohortWins ==
    (Resolved /\ fn.args.user_class \in {7, 8}) => fn.ret = CohortPair

C21_Witness ==
    /\ Resolved
    /\ fn.args.user_class = 7
    /\ fn.args.utm.source = <<"x", "T", "B", "y">>
    /\ fn.args.utm.medium = <<"x", "c", "p", "c">>
    /\ fn.ret = CohortPair

\* C22: for a grade other than 7 and 8, a source that contains a configured
\* partner token as a substring, letter case ignored, gives the Partners
\* pair, whatever the medium is.
C22_PartnerSource ==
    (/\ Resolved
     /\ fn.args.user_class \notin {7, 8}
     /\ HasToken(PartnerTokens, fn.args.utm.source)) => fn.ret = PartnersPair

C22_Witness ==
    /\ Resolved
    /\ fn.args.user_class = NoneId
    /\ fn.args.utm.source = <<"x", "A", "d">>
    /\ fn.args.utm.medium = <<"C", "P">>
    /\ fn.ret = PartnersPair

\* C23: determine_pipeline_and_status always returns one of the four
\* configured pairs; for a grade other than 7 and 8 and a source with no
\* partner token it returns the Paid-Traffic pair when the medium contains a
\* paid-traffic token, letter case ignored, and the Default pair otherwise,
\* so an empty source with an empty medium gives the Default pair.
C23_TotalFallback ==
    Resolved =>
        /\ fn.ret \in {CohortPair, PartnersPair, PaidTrafficPair, DefaultPair}
        /\ (/\ fn.args.user_class \notin {7, 8}
            /\ ~HasToken(PartnerTokens, fn.args.utm.source)) =>
                fn.ret = IF HasToken(PaidTrafficTokens, fn.args.utm.medium)
                         THEN PaidTrafficPair ELSE DefaultPair
        /\ (/\ fn.args.user_class \notin {7, 8}
            /\ fn.args.utm.source = <<>>
            /\ fn.args.utm.medium = <<>>) => fn.ret = DefaultPair

C23_Witness ==
    /\ Resolved
    /\ fn.args.user_class = NoneId
    /\ fn.args.utm.source = <<>>
    /\ fn.args.utm.medium = <<>>
    /\ fn.ret = DefaultPair

\* the process_payment calls that have been entered and have not returned
InFlight == {c \in Calls : call[c].pc \notin {"idle", "done"}}

\* the units of the batch that are inside "async with semaphore"
Inside == {i \in DOMAIN batch.unit : batch.unit[i] = "inside"}

\* C24: while process_payment_batch_parallel runs a batch, at most one
\* process_payment call of the batch is in flight, whatever the size of the
\* batch: a unit is inside the gate only with the one permit taken, and
\* every call in flight belongs to the unit inside the gate.
C24_OneInFlight ==
    batch.pc # "none" =>
        /\ Cardinality(InFlight) <= 1
        /\ Cardinality(Inside) <= 1
        /\ InFlight \subseteq Inside
        /\ batch.pc = "gather" => batch.semaphore = 1 - Cardinality(Inside)

C24_Witness ==
    /\ batch.pc = "gather"
    /\ Len(batch.payments) = MaxCalls
    /\ MaxCalls >= 2
    /\ batch.unit[1] = "inside"
    /\ call[1].pc = "upd_patch"
    /\ \A i \in 2..MaxCalls : batch.unit[i] = "waiting" /\ call[i].pc = "idle"

\* C25: the summary a batch returns has one result entry per submitted
\* payment, each carrying the outcome process_payment returned for that
\* payment (every payment was processed, whatever the outcome of the
\* others), total is the number of payments submitted and
\* succeeded + failed + duplicates + skipped = total; an entry, once
\* collected, is not changed.
C25_PartialResults ==
    /\ [](batch.pc = "returned" =>
            LET summary == batch.summary
            IN  /\ summary.total = Len(batch.payments)
                /\ DOMAIN summary.results = DOMAIN batch.payments
                /\ summary.succeeded + summary.failed + summary.duplicates
                       + summary.skipped = summary.total
                /\ \A i \in DOMAIN batch.payments :
                      /\ call[i].pc = "done"
                      /\ call[i].payment = batch.payments[i]
                      /\ summary.results[i].status = call[i].result
                      /\ call[i].result \in {"success", "duplicate", "error"}
                /\ summary.succeeded =
                      Cardinality({i \in DOMAIN batch.payments :
                                      call[i].result = "success"})
                /\ summary.failed =
                      Cardinality({i \in DOMAIN batch.payments :
                                      call[i].result = "error"})
                /\ summary.duplicates =
                      Cardinality({i \in DOMAIN batch.payments :
                                      call[i].result = "duplicate"}))
    /\ [][\A i \in DOMAIN batch.all_results :
            /\ i \in DOMAIN batch'.all_results
            /\ batch'.all_results[i] = batch.all_results[i]]_vars

C25_Witness ==
    /\ batch.pc = "returned"
    /\ Len(batch.payments) = 2
    /\ batch.summary.results[1].status = "error"
    /\ batch.summary.results[2].status = "success"
    /\ batch.summary.failed = 1
    /\ batch.summary.succeeded = 1
    /\ batch.summary.total = 2

\* the request of endpoint call c carries the signature of its body under
\* the configured secret
SignatureValid(c) ==
    /\ http[c].signature # NoSignature
    /\ http[c].signature.ascii
    /\ http[c].signature.key = WEBHOOK_SECRET
    /\ http[c].signature.msg = http[c].body.id

\* the body of the request of endpoint call c is JSON and has the required
\* fields of a payment
BodyValid(c) ==
    /\ http[c].body.syntax = "json"
    /\ {"phone", "email", "cost"} \subseteq DOMAIN http[c].body.doc

\* endpoint call c has made no gateway call and no ledger write
EngineUntouched(c) ==
    /\ call[c].pc = "idle"
    /\ call[c].crm = 0
    /\ call[c].log = <<>>

\* C26: the single-payment endpoint enters process_payment only for a
\* request whose signature is present and valid and whose body parsed and
\* validated; a missing or invalid signature is answered 401 before the
\* body is parsed, a malformed or invalid body 400, and in both cases no
\* gateway call is made and no ledger row written.
C26_GuardedEntry ==
    \A c \in Calls :
        http[c].pc # "none" =>
            /\ call[c].pc # "idle" => SignatureValid(c) /\ BodyValid(c)
            /\ ~SignatureValid(c) =>
                  /\ http[c].status_code = 401
                  /\ ~http[c].parsed
                  /\ EngineUntouched(c)
            /\ (SignatureValid(c) /\ ~BodyValid(c)) =>
                  /\ http[c].status_code = 400
                  /\ EngineUntouched(c)

\* endpoint call c has answered a request whose processing ended 'error'
AnsweredError(c) == http[c].pc = "responded" /\ call[c].result = "error"

\* C28: the response for the internal-error outcome is generic: two
\* requests whose processing failed get the same status code, detail and
\* content, whatever the texts of the two exceptions are.
C28_GenericError ==
    \A c1, c2 \in Calls :
        (AnsweredError(c1) /\ AnsweredError(c2)) =>
            /\ http[c1].status_code = http[c2].status_code
            /\ http[c1].detail = http[c2].detail
            /\ http[c1].content = http[c2].content

\* c1 and then c2, one after the other, were entered with two different
\* payments that both carry no payment_id
AnonymousPair(c1, c2) ==
    /\ c1 \in call[c2].startedAfter
    /\ call[c2].pc = "done"
    /\ call[c1].payment.payment_id = ""
    /\ call[c2].payment.payment_id = ""
    /\ call[c1].payment # call[c2].payment

\* C29: a payment without payment_id is handled under the identifier
\* 'unknown' and is not deduplicable: of two different payments without
\* payment_id the second is processed as well (it reaches the CRM) and is
\* not returned as a duplicate of the first.
C29_AnonymousNotDeduplicated ==
    \A c1, c2 \in Calls :
        AnonymousPair(c1, c2) =>
            /\ call[c1].payment_id = "unknown"
            /\ call[c2].payment_id = "unknown"
            /\ call[c2].result # "duplicate"
            /\ call[c2].crm > 0

\* the status code the endpoint is to answer each outcome with
StatusTable ==
    { <<"success", 200>>, <<"duplicate", 409>>, <<"contact_not_found", 404>>,
      <<"lead_not_found", 404>>, <<"skipped", 202>>, <<"error", 500>> }

\* C27: the single-payment endpoint answers 'success' with 200, 'duplicate'
\* with 409, 'contact_not_found' and 'lead_not_found' with 404, 'skipped'
\* with 202, and 'error' or any other status with 500.
C27_StatusMapping ==
    (fn.op = "http_response" /\ fn.returned) =>
        /\ \A pair \in StatusTable :
              fn.args.result.status = pair[1] => fn.ret.status_code = pair[2]
        /\ (\A pair \in StatusTable : fn.args.result.status # pair[1]) =>
              fn.ret.status_code = 500

C27_Witness ==
    /\ fn.op = "http_response"
    /\ fn.returned
    /\ fn.args.result.status = "skipped"
    /\ fn.ret.status_code = 202
    /\ fn.ret.content.status = "skipped"

\* the order in which the keys are to be tried
KeyOrder == <<"tg", "phone", "email">>

\* the contacts the search for the i-th key answers with: none when the key
\* is empty or the search fails
Answer(i) ==
    IF fn.args.user[KeyOrder[i]] = "" \/ KeyOrder[i] \in fn.args.failT THEN {}
    ELSE {id \in DOMAIN fn.args.cs : fn.args.user[KeyOrder[i]] \in fn.args.cs[id].keys}

\* the keys whose search answers with a contact
Answering == {i \in 1..3 : Answer(i) # {}}

\* C30: find_contact tries the chat id, then the phone, then the e-mail and
\* skips empty keys; it returns the first contact of the first search that
\* answers with one, a failed search counting as an empty answer after which
\* the next key is tried, and it returns no contact when no search answers.
C30_TieredLookup ==
    (fn.op = "find_contact" /\ fn.returned) =>
        /\ Answering = {} => fn.ret.contact = NoneId
        /\ Answering # {} => fn.ret.contact = Min(Answer(Min(Answering)))
        /\ fn.ret.tried =
              {KeyOrder[i] : i \in {k \in 1..3 :
                  /\ fn.args.user[KeyOrder[k]] # ""
                  /\ (Answering = {} \/ k <= Min(Answering))}}

C30_Witness ==
    /\ fn.op = "find_contact"
    /\ fn.returned
    /\ fn.args.user = [tg |-> "tg1", phone |-> "ph1", email |-> "em1"]
    /\ Len(fn.args.cs) = 3
    /\ fn.args.failT = {"tg"}
    /\ fn.ret.contact = 2
    /\ fn.ret.tried = {"tg", "phone"}

\* the calls of update_contact_fields that have returned or raised
ContactCalls == IF fn.op = "update_contact_fields" THEN fn.ret.hist ELSE <<>>

\* C31: update_contact_fields writes a field only if it is empty on the
\* remote contact: a call leaves every filled field as it was, sends only
\* fields that were empty, sends no PATCH at all when none of the fields it
\* is given is empty, and a second call, whatever its values, changes no
\* field the contact already holds.
C31_OnlyEmptyFields ==
    /\ \A j \in DOMAIN ContactCalls :
         LET h == ContactCalls[j]
         IN  /\ \A f \in {"tg_id", "tg_username", "email"} :
                   /\ h.before[f] # "" => h.after[f] = h.before[f]
                   /\ f \in DOMAIN h.data => h.before[f] = "" /\ h.args[f] # ""
                   /\ h.after[f] # h.before[f] => h.after[f] = h.args[f]
             /\ (\A f \in {"tg_id", "tg_username", "email"} :
                    h.before[f] # "" \/ h.args[f] = "") => ~h.patched
    /\ Len(ContactCalls) = 2 =>
         \A f \in {"tg_id", "tg_username", "email"} :
             ContactCalls[1].after[f] # "" =>
                 ContactCalls[2].after[f] = ContactCalls[1].after[f]

C31_Witness ==
    /\ Len(ContactCalls) = 2
    /\ ContactCalls[1].before = [tg_id |-> "", tg_username |-> "", email |-> "h"]
    /\ ContactCalls[1].args = [tg_id |-> "x", tg_username |-> "", email |-> "x"]
    /\ ContactCalls[1].after = [tg_id |-> "x", tg_username |-> "", email |-> "h"]
    /\ ContactCalls[2].args = [tg_id |-> "y", tg_username |-> "y", email |-> "y"]
    /\ ContactCalls[2].patched
    /\ ContactCalls[2].after = [tg_id |-> "x", tg_username |-> "y", email |-> "h"]

\* the items with a non-zero cost
PaidItems == {i \in DOMAIN fn.args.items : fn.args.items[i].cost > 0}

\* the items that carry one of the two track labels
LabelledItems == {i \in DOMAIN fn.args.items : fn.args.items[i].project \in {"OGE", "EGE"}}

\* the direction the fallback chain yields when the name step looks at the
\* items in names: the first name that resolves, else the grade mapping,
\* else the first track label, else the default track
ChainOver(names) ==
    LET resolving == {i \in names :
            get_direction_enum_id_by_course_name(fn.args.items[i].name) # NoneId}
    IN  IF resolving # {}
        THEN get_direction_enum_id_by_course_name(fn.args.items[Min(resolving)].name)
        ELSE IF get_direction_enum_id_by_class(fn.args.user_class) # NoneId
        THEN get_direction_enum_id_by_class(fn.args.user_class)
        ELSE IF LabelledItems # {}
        THEN IF fn.args.items[Min(LabelledItems)].project = "OGE"
             THEN AMO_DIRECTION_OGE ELSE AMO_DIRECTION_EGE
        ELSE AMO_DIRECTION_EGE

\* C32: direction inference always produces a value, by a fixed chain: the
\* pattern match on the course name of the first item with non-zero cost
\* only; if unresolved the grade mapping; if unresolved the items' track
\* label; otherwise the default track.
C32_DirectionChain ==
    (fn.op = "direction_enum_id" /\ fn.returned) =>
        /\ fn.ret # NoneId
        /\ fn.ret = ChainOver(IF PaidItems = {} THEN {} ELSE {Min(PaidItems)})

\* the search of call c ended with a candidate that survived the
\* untouched-stage override and has no linked contact
NoContactCandidate(c) ==
    /\ Finds(c) # <<>>
    /\ LastFind(c).lead.id # NoneId
    /\ ~Untouched(LastFind(c).lead)
    /\ LastFind(c).lead.contacts = <<>>

\* C33: on the existing-deal path a surviving candidate without linked
\* contact makes process_payment fail hard: the call issues no gateway call
\* after the search (no update, note or task), never changes that deal, and
\* ends with status 'error'.
C33_NoContactFailsHard ==
    /\ [](\A c \in Calls :
            NoContactCandidate(c) =>
                /\ call[c].pc \in {"log_error", "done"}
                /\ call[c].crm = Len(Finds(c))
                /\ call[c].path = ""
                /\ call[c].pc = "done" => call[c].result = "error")
    /\ [][\A c \in Calls :
            (NoContactCandidate(c) /\ call'[c] # call[c]) =>
                leads'[LastFind(c).lead.id] = leads[LastFind(c).lead.id]]_vars

C33_Witness ==
    \E c \in Calls :
        /\ NoContactCandidate(c)
        /\ call[c].pc = "done"
        /\ call[c].result = "error"
        /\ call[c].exc = "Lead has no contacts"
        /\ \E i \in Rows(call[c].payment_id) : ledger[i].status = "error"

\* C34: every process_payment call runs to completion and returns exactly
\* one result, 'success', 'duplicate' or 'error': a call that was entered
\* eventually returns, a returned call has one of the three results, and
\* nothing changes a call that has returned.
C34_RunsToCompletion ==
    /\ \A c \in Calls : (call[c].pc # "idle") ~> (call[c].pc = "done")
    /\ [](\A c \in Calls :
            call[c].pc = "done" => call[c].result \in {"success", "duplicate", "error"})
    /\ [][\A c \in Calls : call[c].pc = "done" => call'[c] = call[c]]_vars

C34_Witness ==
    /\ \A c \in Calls : call[c].pc = "done"
    /\ \E c \in Calls : call[c].result = "error" /\ call[c].failed # {}
    /\ \E c \in Calls : call[c].result = "success"

\* call c made its duplicate check when the ledger held an 'error' row for
\* its payment_id
ErrorRowAtCheck(c) ==
    /\ call[c].checked
    /\ call[c].rowAtCheck
    /\ \E i \in Rows(call[c].payment_id) : ledger[i].status = "error"

\* C35 as stated: once a payment_id has an 'error' row, every later call
\* for it returns 'duplicate' without any CRM call.
C35_Original ==
    \A c \in Calls :
        ErrorRowAtCheck(c) =>
            /\ call[c].crm = 0
            /\ Done(c) => call[c].result = "duplicate"

\* C35 amended: once a payment_id has an 'error' row, a later call for it
\* makes no CRM call and never ends 'success': it returns 'duplicate', or
\* 'error' when its own read of the ledger fails, and the row of the
\* payment_id stays the 'error' row.
C35_Amended ==
    \A c \in Calls :
        ErrorRowAtCheck(c) =>
            /\ call[c].crm = 0
            /\ call[c].result # "success"
            /\ Done(c) => call[c].result = IF call[c].dbFault THEN "error"
                                           ELSE "duplicate"
            /\ \A i \in Rows(call[c].payment_id) : ledger[i].status = "error"

C35_Witness ==
    \E c \in Calls :
        /\ ErrorRowAtCheck(c)
        /\ Done(c)
        /\ call[c].result = "duplicate"
        /\ \E d \in call[c].startedAfter :
              /\ call[d].payment_id = call[c].payment_id
              /\ call[d].result = "error"
              /\ call[d].failed # {}

\* C36: a 'success' row is written only after the deal update and the note
\* for the recorded deal succeeded in the same call: the call that appends
\* the row has had no failure of update_lead_fields or add_lead_note and the
\* deal of the row carries its update and a note, and every 'success' row
\* in the ledger belongs to such a call.
C36_SuccessAfterUpdateAndNote ==
    /\ [](\A i \in DOMAIN ledger :
            ledger[i].status = "success" =>
                \E c \in Calls :
                    /\ call[c].result = "success"
                    /\ call[c].payment_id = ledger[i].payment_id
                    /\ call[c].lead_id = ledger[i].lead_id
                    /\ call[c].failed \cap {"update_lead_fields", "add_lead_note"} = {}
                    /\ leads[ledger[i].lead_id].notes >= 1
                    /\ leads[ledger[i].lead_id].updated_at > 1)
    /\ [][\A c \in Calls :
            (/\ Len(ledger') = Len(ledger) + 1
             /\ ledger'[Len(ledger')].status = "success"
             /\ call'[c] # call[c]) =>
                /\ call[c].pc = "log_success"
                /\ call[c].failed \cap {"update_lead_fields", "add_lead_note"} = {}
                /\ ledger'[Len(ledger')].lead_id = call[c].lead_id
                /\ leads[call[c].lead_id].notes >= 1
                /\ leads[call[c].lead_id].price = call[c].payment.total_cost
                   \/ \E d \in Calls \ {c} : call[d].lead_id = call[c].lead_id]_vars

C36_Witness ==
    \E c \in Calls :
        /\ call[c].result = "success"
        /\ call[c].path = "existing"
        /\ "create_task" \in call[c].failed
        /\ \E i \in Rows(call[c].payment_id) :
              ledger[i].status = "success" /\ ledger[i].lead_id = call[c].lead_id

\* the narrow search of call c returned a candidate in an untouched stage
\* (the override then discards it)
NarrowFoundUntouched(c) ==
    /\ Finds(c) # <<>>
    /\ Finds(c)[1].strategy = "A"
    /\ Untouched(Finds(c)[1].lead)

\* C37: when Strategy A returns a candidate that the untouched-stage
\* override discards, Strategy B is not run even for utm_source 'op' and no
\* other deal of the contact is considered: the call makes no further
\* search, takes the new-deal path, works only on a deal created for its
\* payment and changes no deal that existed before.
C37_NoSecondSearch ==
    /\ [](\A c \in Calls :
            NarrowFoundUntouched(c) =>
                /\ Len(Finds(c)) = 1
                /\ call[c].strategy = "A"
                /\ call[c].path = "new"
                /\ call[c].pc \notin {"find_contact", "search_leads", "verify_leads"}
                /\ call[c].lead_id # NoneId =>
                       leads[call[c].lead_id].created_for = call[c].payment_id)
    /\ [][\A c \in Calls :
            (NarrowFoundUntouched(c) /\ call'[c] # call[c]) =>
                \A id \in DOMAIN leads :
                    leads[id].created_for = "" => leads'[id] = leads[id]]_vars

C37_Witness ==
    \E c \in Calls :
        /\ NarrowFoundUntouched(c)
        /\ SourceIsOp(call[c].payment)
        /\ call[c].result = "success"
        /\ \E id \in DOMAIN leads :
              /\ leads[id].created_for = ""
              /\ leads[id].status_id = STATUS_IN_WORK
              /\ leads[id].pipeline_id = PIPELINE_SITE_TG
              /\ call[c].contact_id \notin Range(leads[id].contacts)
              /\ Finds(c)[1].contact \in Range(leads[id].contacts)

\* the calls that work on deal id
AppliedTo(id) == {c \in Calls : call[c].lead_id = id}

\* deal id existed before the run and every call that works on it has ended
\* 'success' on the existing-deal path, for a payment_id of its own, with a
\* purchase count within the range of the field
PaidSuccessfully(id) ==
    /\ leads[id].created_for = ""
    /\ AppliedTo(id) # {}
    /\ \A c \in AppliedTo(id) :
          /\ call[c].result = "success"
          /\ call[c].path = "existing"
          /\ call[c].written # NoneId
    /\ \A c, d \in AppliedTo(id) : c # d => call[c].payment_id # call[d].payment_id

\* C38: k successful payments with distinct payment_ids applied to the same
\* existing deal leave its purchase count at the initial value (the lowest
\* count a call read) plus k, under every interleaving of the calls.
C38_CountUnderInterleaving ==
    \A id \in DOMAIN leads :
        PaidSuccessfully(id) =>
            CountOf(leads[id]) =
                Min({call[c].cur_count : c \in AppliedTo(id)})
                    + Cardinality(AppliedTo(id))

\* entries i < j of the batch that carry the same payment_id
SameIdEntries ==
    {e \in (DOMAIN batch.payments) \X (DOMAIN batch.payments) :
        /\ e[1] < e[2]
        /\ batch.payments[e[1]].payment_id # ""
        /\ batch.payments[e[1]].payment_id = batch.payments[e[2]].payment_id}

\* C39 as stated: of the entries of one batch with the same payment_id at
\* most one ends 'success', and an entry that is processed when the
\* payment_id already has a ledger row ends 'duplicate'.
C39_Original ==
    \A e \in SameIdEntries :
        /\ ~(call[e[1]].result = "success" /\ call[e[2]].result = "success")
        /\ (call[e[2]].rowAtCheck /\ Done(e[2])) =>
               call[e[2]].result = "duplicate"

\* C39 amended: of the entries of one batch with the same payment_id at most
\* one ends 'success'; the later entry is started only when the earlier one
\* has returned, so it finds the row the earlier one recorded; and an entry
\* that finds a row of its payment_id makes no CRM call and ends
\* 'duplicate', or 'error' when its own read of the ledger fails.
C39_Amended ==
    \A e \in SameIdEntries :
        /\ ~(call[e[1]].result = "success" /\ call[e[2]].result = "success")
        /\ call[e[2]].pc # "idle" => Done(e[1])
        /\ (call[e[2]].checked /\ "ok" \in Range(call[e[1]].log)) =>
               call[e[2]].rowAtCheck
        /\ call[e[2]].rowAtCheck =>
               /\ call[e[2]].crm = 0
               /\ Done(e[2]) =>
                     call[e[2]].result = IF call[e[2]].dbFault THEN "error"
                                         ELSE "duplicate"

C39_Witness ==
    /\ batch.pc = "returned"
    /\ batch.payments = <<PayOp, PayOp>>
    /\ call[1].result = "success"
    /\ call[1].crm > 0
    /\ call[2].result = "duplicate"
    /\ call[2].crm = 0
    /\ batch.summary.succeeded = 1
    /\ batch.summary.duplicates = 1

\* the rows of the table a finished cleanup call found that were older than
\* its days argument when it deleted, and their payment ids
OldRows ==
    {i \in DOMAIN fn.ret.before :
        fn.ret.stamps[i] < fn.ret.at - fn.args[1] * SecondsPerDay}
PurgedIds == {fn.ret.before[i].payment_id : i \in OldRows}
CleanupReturned ==
    fn.op = "cleanup_old_records" /\ fn.ret.pc = "done" /\ ~fn.ret.raised

\* C40: a cleanup_old_records(days) call that returns has deleted exactly
\* the rows whose created_at was older than the given number of days, has
\* left every newer row unchanged and returns the number of rows it
\* deleted; a payment_id it purged is not processed according to
\* is_payment_processed, and a submission of that payment checked after the
\* call is not reported as a duplicate.
C40_CleanupExact ==
    CleanupReturned =>
        /\ fn.ret.after = Remaining(fn.ret.before, OldRows)
        /\ fn.ret.value = Cardinality(OldRows)
        /\ \A pid \in PurgedIds : ~is_payment_processed(fn.ret.after, pid)
        /\ \A c \in Calls \ fn.ret.entered :
              (call[c].checked /\ call[c].payment_id \in PurgedIds) =>
                  /\ ~call[c].rowAtCheck
                  /\ call[c].result # "duplicate"

====
